---- MODULE Spec2Model ----
(***************************************************************************)
(* Model of the bill classification and routing engine                     *)
(* (supabase/functions/onebill-vision-parse/index.ts) and of the retry     *)
(* coordinator (onebill-retry, src/unnamed/part_002).                      *)
(*                                                                         *)
(* Conventions                                                             *)
(*  - an optional object (x?.[0], undefined) is a sequence of length <= 1; *)
(*  - a string that the code only tests for truthiness or copies is a      *)
(*    TLA+ string, "" standing for both "" and undefined (both falsy);     *)
(*  - a string that the code transforms or searches is a sequence of       *)
(*    symbols (characters for phone / mcc / dg, words for supplier names,  *)
(*    tokens for a billing period text);                                   *)
(*  - unit_rates is an object in the tool schema: TRUE when the object is  *)
(*    present (truthy), FALSE when it is missing.                          *)
(***************************************************************************)
EXTENDS Integers, Sequences, FiniteSets, TLC

\* ------------------------------------------------------------------ bounds
\* largest number of meter readings on one bill in the enumerated inputs
MaxReadings == 1
\* the longest run of out-of-period readings the confidence score is applied to
MaxScoreReadings == 9
\* the longest string the normalisers are applied to
MaxCodeLen == 4
\* the most readings of a bill the date correlator is run on
MaxCorrelatorReadings == 2
\* the most rows of the api_configs table
MaxConfigRows == 2
MaxSubmits == 2
MaxUploads == 3

\* -------------------------------------------------------- generic helpers
RECURSIVE CountTrue(_)
CountTrue(flags) ==
  IF flags = <<>> THEN 0
  ELSE (IF Head(flags) THEN 1 ELSE 0) + CountTrue(Tail(flags))

Min2(a, b) == IF a < b THEN a ELSE b
Max2(a, b) == IF a > b THEN a ELSE b

\* A response body or an error message is a text identified by its source
\* (id) and its length in characters; slice(0, n) keeps the id (the result
\* is a prefix of that text) and cuts the length to at most n.
\* variant: the text is passed on whole
sliceWhole(text, n) == text

slice(text, n) == [text EXCEPT !.len = Min2(@, n)]

\* --------------------------------------------------------- date modelling
\* A date text is a token: k = "iso" for YYYY-MM-DD, "dmy" for DD/MM/YYYY,
\* "sentinel" for the unknown date "0000-00-00", "none" for a missing date.
\* t is the day number the text denotes.
NoDate   == [k |-> "none", t |-> 0]
Sentinel == [k |-> "sentinel", t |-> 0]
Iso(t)   == [k |-> "iso", t |-> t]
Dmy(t)   == [k |-> "dmy", t |-> t]
Word(w)  == [k |-> w, t |-> 0]

\* ------------------------------------------------------ supplier matching
\* String.prototype.toLowerCase on one word of a supplier name
LowerWord(w) ==
  CASE w = "Electric" -> "electric"
    [] w = "Ireland"  -> "ireland"
    [] w = "ESB"      -> "esb"
    [] w = "Networks" -> "networks"
    [] w = "Energy"   -> "energy"
    [] w = "Energia"  -> "energia"
    [] w = "ENERGIA"  -> "energia"
    [] w = "Flogas"   -> "flogas"
    [] w = "FLOGAS"   -> "flogas"
    [] w = "Natural"  -> "natural"
    [] w = "Gas"      -> "gas"
    [] w = "Bord"     -> "bord"
    [] w = "Gais"     -> "gais"
    [] OTHER          -> w

toLowerCase(name) == [i \in 1..Len(name) |-> LowerWord(name[i])]

\* String.prototype.includes: p occurs as a contiguous run of s
includes(s, p) ==
  \E i \in 0..(Len(s) - Len(p)) : SubSeq(s, i + 1, i + Len(p)) = p

electricityOnlyProviders ==
  { <<"electric", "ireland">>, <<"esb", "networks">>, <<"esb", "energy">>, <<"energia">> }
gasOnlyProviders == { <<"flogas">>, <<"natural", "gas">> }

\* --------------------------------------------------- optional bill access
\* parsedData.bills.electricity?.[0]
First(arr) == IF Len(arr) > 0 THEN <<arr[1]>> ELSE <<>>

\* Optional chaining on the captured bill: a missing bill yields the falsy
\* value of the field's type.
StrOf(b, f)  == IF b = <<>> THEN "" ELSE b[1][f]
SeqOf(b, f)  == IF b = <<>> THEN <<>> ELSE b[1][f]
NumOf(b, f)  == IF b = <<>> THEN 0 ELSE b[1][f]
BoolOf(b, f) == IF b = <<>> THEN FALSE ELSE b[1][f]
TokOf(b, f)  == IF b = <<>> THEN NoDate ELSE b[1][f]

\* ----------------------------------------------------- validation helpers
countElectricityData(electricityData) ==
  IF electricityData = <<>> THEN 0
  ELSE CountTrue(<<
         StrOf(electricityData, "invoice_number") # "",
         StrOf(electricityData, "account_number") # "",
         StrOf(electricityData, "mprn") # "",
         SeqOf(electricityData, "dg") # <<>>,
         SeqOf(electricityData, "billing_period") # <<>>,
         Len(SeqOf(electricityData, "meter_readings")) # 0,
         BoolOf(electricityData, "unit_rates"),
         NumOf(electricityData, "total_due") # 0 /\ NumOf(electricityData, "total_due") > 0
       >>)

countGasData(gasData) ==
  IF gasData = <<>> THEN 0
  ELSE CountTrue(<<
         StrOf(gasData, "invoice_number") # "",
         StrOf(gasData, "account_number") # "",
         StrOf(gasData, "gprn") # "",
         SeqOf(gasData, "billing_period") # <<>>,
         Len(SeqOf(gasData, "meter_readings")) # 0,
         BoolOf(gasData, "unit_rates"),
         NumOf(gasData, "total_due") # 0 /\ NumOf(gasData, "total_due") > 0
       >>)

\* supplier_details?.name?.toLowerCase() || ""
ProviderOf(data) == toLowerCase(SeqOf(data, "name"))

isElectricityOnlyProviderOf(electricityData) ==
  \E p \in electricityOnlyProviders : includes(ProviderOf(electricityData), p)
isGasOnlyProviderOf(gasData) ==
  \E p \in gasOnlyProviders : includes(ProviderOf(gasData), p)

\* variant: the weak side of rule 1 is at most one data point
Rule1WeakAtMostOne(electricityDataPoints, gasDataPoints) ==
  IF electricityDataPoints >= 4 /\ gasDataPoints <= 1 /\ gasDataPoints > 0
    THEN "gas"
  ELSE IF gasDataPoints >= 4 /\ electricityDataPoints <= 1 /\ electricityDataPoints > 0
    THEN "electricity"
  ELSE "none"

\* VALIDATION RULE 1: which branch the if / else-if clears
Rule1(electricityDataPoints, gasDataPoints) ==
  IF electricityDataPoints >= 4 /\ gasDataPoints <= 2 /\ gasDataPoints > 0
    THEN "gas"
  ELSE IF gasDataPoints >= 4 /\ electricityDataPoints <= 2 /\ electricityDataPoints > 0
    THEN "electricity"
  ELSE "none"

\* variant: rule 2 tests the gas-only supplier first
Rule2GasFirst(electricityData, gasData, electricityDataPoints, gasDataPoints) ==
  IF isGasOnlyProviderOf(gasData) /\ electricityDataPoints > 0
    THEN "electricity"
  ELSE IF isElectricityOnlyProviderOf(electricityData) /\ gasDataPoints > 0
    THEN "gas"
  ELSE "none"

\* VALIDATION RULE 2: which branch the if / else-if clears
Rule2(electricityData, gasData, electricityDataPoints, gasDataPoints) ==
  IF isElectricityOnlyProviderOf(electricityData) /\ gasDataPoints > 0
    THEN "gas"
  ELSE IF isGasOnlyProviderOf(gasData) /\ electricityDataPoints > 0
    THEN "electricity"
  ELSE "none"

hasElectricityIdentifierOf(electricityData) ==
  StrOf(electricityData, "mprn") # "" \/ SeqOf(electricityData, "dg") # <<>>
hasElectricityBillingFieldsOf(electricityData) ==
  \/ StrOf(electricityData, "invoice_number") # ""
  \/ StrOf(electricityData, "account_number") # ""
  \/ SeqOf(electricityData, "billing_period") # <<>>
hasGasIdentifierOf(gasData) == StrOf(gasData, "gprn") # ""
hasGasBillingFieldsOf(gasData) ==
  \/ StrOf(gasData, "invoice_number") # ""
  \/ StrOf(gasData, "account_number") # ""
  \/ SeqOf(gasData, "billing_period") # <<>>

\* variant: rule 3 without the limit on the data points
Rule3ElectricityAnyCount(electricityData, electricityDataPoints) ==
  /\ hasElectricityIdentifierOf(electricityData)
  /\ ~hasElectricityBillingFieldsOf(electricityData)

\* VALIDATION RULE 3, electricity and gas halves
Rule3Electricity(electricityData, electricityDataPoints) ==
  /\ hasElectricityIdentifierOf(electricityData)
  /\ ~hasElectricityBillingFieldsOf(electricityData)
  /\ electricityDataPoints <= 1
Rule3Gas(gasData, gasDataPoints) ==
  /\ hasGasIdentifierOf(gasData)
  /\ ~hasGasBillingFieldsOf(gasData)
  /\ gasDataPoints <= 1

\* ------------------------------------------------- document classification
\* the six billing indicators of the first bill of a branch, counted on the
\* bill arrays as they are when the classifier runs
electricityBillingIndicatorsOf(electricity) ==
  LET e == First(electricity) IN
  CountTrue(<<
    StrOf(e, "invoice_number") # "",
    StrOf(e, "account_number") # "",
    SeqOf(e, "billing_period") # <<>>,
    NumOf(e, "total_due") # 0 /\ NumOf(e, "total_due") > 0,
    Len(SeqOf(e, "meter_readings")) > 0,
    BoolOf(e, "unit_rates")
  >>)

gasBillingIndicatorsOf(gas) ==
  LET g == First(gas) IN
  CountTrue(<<
    StrOf(g, "invoice_number") # "",
    StrOf(g, "account_number") # "",
    SeqOf(g, "billing_period") # <<>>,
    NumOf(g, "total_due") # 0 /\ NumOf(g, "total_due") > 0,
    Len(SeqOf(g, "meter_readings")) > 0,
    BoolOf(g, "unit_rates")
  >>)

hasElectricityIdentifierForClassificationOf(electricity) ==
  StrOf(First(electricity), "mprn") # "" \/ SeqOf(First(electricity), "dg") # <<>>
hasGasIdentifierForClassificationOf(gas) == StrOf(First(gas), "gprn") # ""

\* variant: the threshold of the electricity classifier one too low
hasElectricityBillDataOfTwo(electricity) == electricityBillingIndicatorsOf(electricity) >= 2
hasElectricityBillDataOf(electricity) == electricityBillingIndicatorsOf(electricity) >= 3
hasGasBillDataOf(gas) == gasBillingIndicatorsOf(gas) >= 3

\* variant: the billing indicators alone classify an electricity bill
hasElectricityDataOfIndicatorsOnly(electricity) == hasElectricityBillDataOf(electricity)
hasElectricityDataOf(electricity) ==
  hasElectricityIdentifierForClassificationOf(electricity) /\ hasElectricityBillDataOf(electricity)
hasGasDataOf(gas) ==
  hasGasIdentifierForClassificationOf(gas) /\ hasGasBillDataOf(gas)

\* ----------------------------------------------------------- date correlator
\* new Date(text): only a YYYY-MM-DD text gives a valid date; "0000-00-00"
\* (month 00) gives Invalid Date, and so does a DD/MM/YYYY text whose DD is
\* above 12, which is what the "dmy" tokens of this model stand for.
NewDate(tok) == [valid |-> tok.k = "iso", t |-> tok.t]
\* variant: the comparison is not strict
DateLessOrEqual(a, b) == a.valid /\ b.valid /\ a.t <= b.t

\* a < b on Date objects: false as soon as one side is Invalid Date (NaN)
DateLess(a, b) == a.valid /\ b.valid /\ a.t < b.t

\* billingPeriod.match(/(\d{4}-\d{2}-\d{2})/g)
IsIsoShaped(tok) == tok.k \in {"iso", "sentinel"}
periodMatchOf(billingPeriod) == SelectSeq(billingPeriod, IsIsoShaped)

\* reading.date || reading.read_date
readDateOf(reading) == IF reading.date.k # "none" THEN reading.date ELSE reading.read_date

RECURSIVE WarningsFrom(_, _, _, _)
WarningsFrom(readings, idx, periodStart, periodEnd) ==
  IF idx > Len(readings) THEN <<>>
  ELSE LET readDate == readDateOf(readings[idx])
           skip == readDate.k = "none" \/ readDate.k = "sentinel"
           outside == \/ DateLess(NewDate(readDate), NewDate(periodStart))
                      \/ DateLess(NewDate(periodEnd), NewDate(readDate))
           here == IF ~skip /\ outside
                     THEN << [idx |-> idx, date |-> readDate,
                              periodStart |-> periodStart, periodEnd |-> periodEnd] >>
                     ELSE <<>>
       IN here \o WarningsFrom(readings, idx + 1, periodStart, periodEnd)

validateMeterReadingDates(billingPeriod, readings) ==
  IF billingPeriod = <<>> \/ Len(readings) = 0 THEN <<>>
  ELSE LET periodMatch == periodMatchOf(billingPeriod) IN
       IF Len(periodMatch) < 2 THEN <<>>
       ELSE WarningsFrom(readings, 1, periodMatch[1], periodMatch[2])

\* the ternary around validateMeterReadingDates: taken when the first bill of
\* the branch has a billing_period (an absent meter_readings array and an
\* empty one both end in no warning)
DateWarningsOf(arr) ==
  LET b == First(arr) IN
  IF SeqOf(b, "billing_period") # <<>>
    THEN validateMeterReadingDates(SeqOf(b, "billing_period"), SeqOf(b, "meter_readings"))
    ELSE <<>>

\* --------------------------------------------------------- normalisation
IsSpace(c) == c \in {" ", "\t"}
NotSpace(c) == ~IsSpace(c)
\* p.replace(/\s+/g, '')
normalizePhone(p) == SelectSeq(p, NotSpace)

UpperChar(c) ==
  CASE c = "m" -> "M"
    [] c = "c" -> "C"
    [] c = "d" -> "D"
    [] c = "g" -> "G"
    [] OTHER   -> c
toUpperCase(val) == [i \in 1..Len(val) |-> UpperChar(val[i])]
startsWith(s, p) == Len(s) >= Len(p) /\ SubSeq(s, 1, Len(p)) = p

\* variant: the prefix is put in front of every non-empty code
prefixMccAlways(val) ==
  IF val = <<>> THEN <<>> ELSE <<"M", "C", "C">> \o toUpperCase(val)

prefixMcc(val) ==
  IF val = <<>> THEN <<>>
  ELSE LET upper == toUpperCase(val) IN
       IF startsWith(upper, <<"M", "C", "C">>) THEN upper ELSE <<"M", "C", "C">> \o upper

prefixDg(val) ==
  IF val = <<>> THEN <<>>
  ELSE LET upper == toUpperCase(val) IN
       IF startsWith(upper, <<"D", "G">>) THEN upper ELSE <<"D", "G">> \o upper

\* ------------------------------------------------------ payload building
\* payload is optional on a call: <<>> when the call has none (meter)
NoPayload == <<>>

\* variant: mcc and dg are passed on as extracted
electricityCallAsExtracted(phone, electricity) ==
  [ endpoint |-> "https://api.onebill.ie/api/electricity-file",
    type     |-> "electricity",
    payload  |-> << [ phone    |-> normalizePhone(phone),
                      mprn     |-> StrOf(First(electricity), "mprn"),
                      mcc_type |-> SeqOf(First(electricity), "mcc"),
                      dg_type  |-> SeqOf(First(electricity), "dg") ] >> ]

\* the electricity push onto apiCalls
electricityCall(phone, electricity) ==
  [ endpoint |-> "https://api.onebill.ie/api/electricity-file",
    type     |-> "electricity",
    payload  |-> << [ phone    |-> normalizePhone(phone),
                      mprn     |-> StrOf(First(electricity), "mprn"),
                      mcc_type |-> prefixMcc(SeqOf(First(electricity), "mcc")),
                      dg_type  |-> prefixDg(SeqOf(First(electricity), "dg")) ] >> ]

gasCall(phone, gas) ==
  [ endpoint |-> "https://api.onebill.ie/api/gas-file",
    type     |-> "gas",
    payload  |-> << [ phone |-> normalizePhone(phone),
                      gprn  |-> StrOf(First(gas), "gprn") ] >> ]

meterCall ==
  [ endpoint |-> "https://api.onebill.ie/api/meter-file",
    type     |-> "meter",
    payload  |-> NoPayload ]

\* variant: the meter default looks at the electricity flag only
buildApiCallsMeterUnlessElectricity(phone, electricity, gas, hasElectricityData, hasGasData) ==
  (IF hasElectricityData THEN << electricityCall(phone, electricity) >> ELSE <<>>)
  \o (IF hasGasData THEN << gasCall(phone, gas) >> ELSE <<>>)
  \o (IF ~hasElectricityData THEN << meterCall >> ELSE <<>>)

\* the three pushes onto apiCalls, in source order
buildApiCalls(phone, electricity, gas, hasElectricityData, hasGasData) ==
  (IF hasElectricityData THEN << electricityCall(phone, electricity) >> ELSE <<>>)
  \o (IF hasGasData THEN << gasCall(phone, gas) >> ELSE <<>>)
  \o (IF ~hasElectricityData /\ ~hasGasData THEN << meterCall >> ELSE <<>>)

\* ------------------------------------------------------- confidence score
\* parseDate: a DD/MM/YYYY text gives new Date(year, month - 1, day), any
\* other text gives null (<<>>)
parseDate(tok) == IF tok.k = "dmy" THEN << tok.t >> ELSE <<>>

\* billingPeriod.match(/(\d{2}\/\d{2}\/\d{4})\s*-\s*(\d{2}\/\d{2}\/\d{4})/):
\* the first place where two DD/MM/YYYY texts are joined by a dash
DmyPairAt(billingPeriod, i) ==
  /\ i + 2 <= Len(billingPeriod)
  /\ billingPeriod[i].k = "dmy"
  /\ billingPeriod[i + 1].k = "-"
  /\ billingPeriod[i + 2].k = "dmy"

dmyPeriodMatchOf(billingPeriod) ==
  LET places == { i \in 1..Len(billingPeriod) : DmyPairAt(billingPeriod, i) } IN
  IF places = {} THEN <<>>
  ELSE LET i == CHOOSE j \in places : \A k \in places : j <= k
       IN << billingPeriod[i], billingPeriod[i + 2] >>

\* the keys of the object parsedData.bills after the handler's normalisation
BillsKeys == {"cus_details", "electricity", "gas", "broadband"}

keyFieldsToCheck == <<
  [path |-> <<"bills", "customer[0]", "details", "customer_name">>, points |-> 5, condition |-> "always"],
  [path |-> <<"bills", "customer[0]", "details", "address">>, points |-> 5, condition |-> "always"],
  [path |-> <<"bills", "electricity[0]", "electricity_details", "invoice_number">>, points |-> 7, condition |-> "electricity"],
  [path |-> <<"bills", "electricity[0]", "electricity_details", "account_number">>, points |-> 7, condition |-> "electricity"],
  [path |-> <<"bills", "electricity[0]", "electricity_details", "meter_details", "mprn">>, points |-> 8, condition |-> "electricity"],
  [path |-> <<"bills", "gas[0]", "gas_details", "invoice_number">>, points |-> 7, condition |-> "gas"],
  [path |-> <<"bills", "gas[0]", "gas_details", "account_number">>, points |-> 7, condition |-> "gas"],
  [path |-> <<"bills", "gas[0]", "gas_details", "gprn">>, points |-> 8, condition |-> "gas"] >>

\* field.path.split('.').reduce((obj, key) => obj?.[key], parsedData) is
\* truthy: split keeps "customer[0]" / "electricity[0]" / "gas[0]" as one
\* key, so the walk leaves parsedData.bills only through a property of that
\* exact name; a property that is one of the bill arrays has no member named
\* after a detail section either.
PathValueTruthy(path) ==
  /\ path[1] = "bills"
  /\ path[2] \in BillsKeys
  /\ path[3] \in {"length"}

keyFieldApplies(field, hasElectricityData, hasGasData) ==
  CASE field.condition = "electricity" -> hasElectricityData
    [] field.condition = "gas"         -> hasGasData
    [] OTHER                           -> TRUE

RECURSIVE keyFieldScoreFrom(_, _, _)
keyFieldScoreFrom(i, hasElectricityData, hasGasData) ==
  IF i > Len(keyFieldsToCheck) THEN 0
  ELSE LET field == keyFieldsToCheck[i] IN
       (IF keyFieldApplies(field, hasElectricityData, hasGasData) /\ PathValueTruthy(field.path)
          THEN field.points ELSE 0)
       + keyFieldScoreFrom(i + 1, hasElectricityData, hasGasData)

electricityCompleteness(elec) ==
    (IF SeqOf(elec, "billing_period") # <<>> THEN 5 ELSE 0)
  + (IF TokOf(elec, "issue_date").k # "none" THEN 3 ELSE 0)
  + (IF Len(SeqOf(elec, "meter_readings")) > 0 THEN 8 ELSE 0)
  + (IF NumOf(elec, "usage_length") > 0 THEN 6 ELSE 0)
  + (IF NumOf(elec, "total_amount_due") > 0 THEN 6 ELSE 0)
  + (IF SeqOf(elec, "dg") # <<>> THEN 4 ELSE 0)
  + (IF SeqOf(elec, "mcc") # <<>> THEN 3 ELSE 0)

gasCompleteness(gas) ==
    (IF SeqOf(gas, "billing_period") # <<>> THEN 5 ELSE 0)
  + (IF TokOf(gas, "issue_date").k # "none" THEN 3 ELSE 0)
  + (IF Len(SeqOf(gas, "meter_readings")) > 0 THEN 8 ELSE 0)
  + (IF NumOf(gas, "usage_length") > 0 THEN 6 ELSE 0)
  + (IF NumOf(gas, "total_amount_due") > 0 THEN 6 ELSE 0)
  + (IF NumOf(gas, "conversion_factor") # 0 THEN 3 ELSE 0)
  + (IF NumOf(gas, "calorific_value") # 0 THEN 4 ELSE 0)

RECURSIVE readingPenaltyFrom(_, _, _, _)
readingPenaltyFrom(readings, i, periodStart, periodEnd) ==
  IF i > Len(readings) THEN 0
  ELSE LET readDate == IF readings[i].date.k # "none" THEN parseDate(readings[i].date) ELSE <<>> IN
       (IF readDate # <<>> /\ (readDate[1] < periodStart \/ readDate[1] > periodEnd) THEN 3 ELSE 0)
       + readingPenaltyFrom(readings, i + 1, periodStart, periodEnd)

\* what one run of checkDateConsistency takes off dateScore
checkDateConsistency(service) ==
  LET billingPeriod == SeqOf(service, "billing_period") IN
  IF billingPeriod = <<>> THEN 5
  ELSE LET periodMatch == dmyPeriodMatchOf(billingPeriod) IN
       IF periodMatch = <<>> THEN 3
       ELSE LET periodStart == parseDate(periodMatch[1])
                periodEnd   == parseDate(periodMatch[2])
            IN IF periodStart = <<>> \/ periodEnd = <<>> \/ periodStart[1] >= periodEnd[1] THEN 5
               ELSE LET issueDate == TokOf(service, "issue_date")
                        issue == IF issueDate.k # "none" THEN parseDate(issueDate) ELSE <<>>
                    IN readingPenaltyFrom(SeqOf(service, "meter_readings"), 1, periodStart[1], periodEnd[1])
                       + (IF issue # <<>> /\ issue[1] < periodEnd[1] THEN 2 ELSE 0)

\* dateScore when both services have been checked
dateScoreAfterChecks(bills, hasElectricityData, hasGasData) ==
  25 - (IF hasElectricityData THEN checkDateConsistency(First(bills.electricity)) ELSE 0)
     - (IF hasGasData THEN checkDateConsistency(First(bills.gas)) ELSE 0)

keyFieldsSubScore(hasElectricityData, hasGasData) ==
  Min2(keyFieldScoreFrom(1, hasElectricityData, hasGasData), 40)

\* variant: completeness is counted for every bill in the extraction
completenessSubScoreUnclassified(bills, hasElectricityData, hasGasData) ==
  Min2( (IF bills.electricity # <<>> THEN electricityCompleteness(First(bills.electricity)) ELSE 0)
      + (IF bills.gas # <<>> THEN gasCompleteness(First(bills.gas)) ELSE 0), 35)

completenessSubScore(bills, hasElectricityData, hasGasData) ==
  Min2( (IF hasElectricityData THEN electricityCompleteness(First(bills.electricity)) ELSE 0)
      + (IF hasGasData THEN gasCompleteness(First(bills.gas)) ELSE 0), 35)

\* variant: dateScore is added as it stands
dateSubScoreAsIs(bills, hasElectricityData, hasGasData) ==
  dateScoreAfterChecks(bills, hasElectricityData, hasGasData)

\* Math.max(dateScore, 0)
dateSubScore(bills, hasElectricityData, hasGasData) ==
  Max2(dateScoreAfterChecks(bills, hasElectricityData, hasGasData), 0)

\* Math.round(Math.min(score, 100)) of an integer sum
calculateConfidenceScore(bills, hasElectricityData, hasGasData) ==
  Min2( keyFieldsSubScore(hasElectricityData, hasGasData)
      + completenessSubScore(bills, hasElectricityData, hasGasData)
      + dateSubScore(bills, hasElectricityData, hasGasData), 100)

\* =================================================================== state
VARIABLES
  \* ---- onebill-vision-parse, one request
  pc,                     \* "await_ai", "dispatching" or "responded"
  phone,                  \* the request's phone
  bills,                  \* parsedData.bills: [electricity, gas] arrays
  electricityData,        \* the first electricity bill captured before validation
  gasData,                \* the first gas bill captured before validation
  electricityDataPoints,  \* countElectricityData() taken before validation
  gasDataPoints,          \* countGasData() taken before validation
  validationLog,          \* which console.warn lines of the validator ran
  classification,         \* the classifier's constants
  apiCalls,               \* the built calls
  callPc,                 \* per call: "file", "post" or "settled"
  started,                \* per call: how often its callback was entered
  posts,                  \* per call: the forms POSTed to its endpoint, in order
  settleOrder,            \* the calls in the order their promises settled
  apiResults,             \* per call: <<>> or << result >>
  received,               \* per call: <<>> or << what came back: a body or a thrown error >>
  response,               \* <<>> or << the response body >>
  \* ---- onebill-retry, one request
  rpc,                    \* "request", "attempt", "sleeping" or "returned"
  retryBody,              \* the RetryBody of the request
  attempt,                \* the loop variable
  lastStatus,
  lastText,
  attemptLog,             \* one entry per attempt performed
  sleeps,                 \* the delays passed to sleep(), in order
  retryResponse,          \* <<>> or << the response >>
  \* ---- onebill-vision-parse, the vision phase of the request
  isPdf,                  \* fileUrl.toLowerCase().endsWith('.pdf')
  usedConversion,
  visionCalls,            \* how many fetches of the AI gateway were issued
  aiLog,                  \* what came back from them, in order
  convertedUrls,          \* per PDF conversion run: how many URLs it returned
  errorResponse,          \* <<>> or << the error response of the request >>
  \* ---- one function of the router applied on its own
  fn,                     \* "none" or the name of the function applied
  fnArgs,                 \* <<>> or << its arguments >>
  fnResult,               \* <<>> or << what it returned >>
  \* ---- the upload page with the retry panel (Index, ApiRetryPanel)
  loading,                \* Index: a handleSubmit run is in flight
  submits,                \* how many handleSubmit runs were started
  failedApiCalls,         \* Index: the calls handed to the retry panel
  retrying,               \* ApiRetryPanel: the keys whose retrying flag is true
  retriesInFlight,        \* the onebill-retry invocations not yet answered
  latestFailed,           \* the failed calls of the last answered submit
  retriedOk,              \* the calls whose retry came back ok
  \* ---- useBillParser
  parserPc,               \* "idle", "upload", "fetch" or "json"
  uploads,                \* how many uploadFile runs were started
  uploading,
  parserLoading,          \* the hook's loading flag
  progressStep,
  resetTimers,            \* the delays of the pending setTimeout callbacks
  resetWhileBusy          \* a callback set "idle" while uploading or loading

parseVars == << pc, phone, bills, electricityData, gasData, electricityDataPoints,
                gasDataPoints, validationLog, classification, apiCalls, callPc,
                started, posts, settleOrder, apiResults, received, response >>
retryVars == << rpc, retryBody, attempt, lastStatus, lastText, attemptLog, sleeps,
                retryResponse >>
fnVars == << fn, fnArgs, fnResult >>
visionVars == << isPdf, usedConversion, visionCalls, aiLog, convertedUrls, errorResponse >>
panelVars == << loading, submits, failedApiCalls, retrying, retriesInFlight,
                latestFailed, retriedOk >>
parserVars == << parserPc, uploads, uploading, parserLoading, progressStep,
                 resetTimers, resetWhileBusy >>
uiVars == << panelVars, parserVars >>
vars == << pc, phone, bills, electricityData, gasData, electricityDataPoints,
           gasDataPoints, validationLog, classification, apiCalls, callPc,
           started, posts, settleOrder, apiResults, received, response,
           rpc, retryBody, attempt, lastStatus, lastText, attemptLog, sleeps,
           retryResponse, fn, fnArgs, fnResult,
           isPdf, usedConversion, visionCalls, aiLog, convertedUrls, errorResponse,
           loading, submits, failedApiCalls, retrying, retriesInFlight,
           latestFailed, retriedOk,
           parserPc, uploads, uploading, parserLoading, progressStep,
           resetTimers, resetWhileBusy >>

\* ============================================================ input domains
SeqsUpTo(S, n) == UNION { [1..k -> S] : k \in 0..n }

\* texts of billing periods
IsoPeriod == << Iso(10), Word("to"), Iso(20) >>
DmyPeriod == << Dmy(10), Word("-"), Dmy(20) >>

\* a reading dated after the end of both periods
LateReading == [date |-> Iso(25), read_date |-> NoDate]

Texts == [id : {"body"}, len : {0, 12, 5000}]
ErrorTexts == [id : {"error"}, len : {9, 4500}]
FailedToReadBody == [id |-> "Failed to read response body", len |-> 28]

Statuses == {200, 404, 429, 500, 503}

\* every combination of present / absent fields of an electricity bill
ElectricityBills ==
  [ invoice_number : {"", "INV-1"}, account_number : {"", "ACC-1"},
    mprn : {"", "10001234567"}, dg : { <<>>, <<"d", "g", "1">> }, mcc : { <<>> },
    name : { <<"Bord", "Gais">>, <<"ENERGIA">> },
    billing_period : { <<>>, IsoPeriod }, issue_date : { NoDate },
    meter_readings : SeqsUpTo({LateReading}, MaxReadings),
    unit_rates : BOOLEAN, total_due : {0, 50},
    usage_length : {0}, total_amount_due : {0} ]

\* every combination of present / absent fields of a gas bill
GasBills ==
  [ invoice_number : {"", "INV-2"}, account_number : {"", "ACC-2"},
    gprn : {"", "1234567"},
    name : { <<"Bord", "Gais">>, <<"Flogas", "Natural", "Gas">> },
    billing_period : { <<>>, IsoPeriod }, issue_date : { NoDate },
    meter_readings : SeqsUpTo({LateReading}, MaxReadings),
    unit_rates : BOOLEAN, total_due : {0, 50},
    usage_length : {0}, total_amount_due : {0},
    conversion_factor : {0}, calorific_value : {0} ]

OptionalBill(S) == { <<>> } \cup { << b >> : b \in S }

\* the extraction results the validator and the classifier are checked on
Extractions ==
  [ electricity : OptionalBill(ElectricityBills), gas : OptionalBill(GasBills) ]

\* ---- inputs of the date correlator: billing-period texts with 0, 1, 2 and
\* 3 YYYY-MM-DD substrings, the unknown date in the text, and readings dated
\* before, on the bounds of, inside and after the period 10..20
CorrelatorPeriods ==
  { <<>>,
    << Word("January") >>,
    << Iso(10) >>,
    IsoPeriod,
    << Iso(10), Word("to"), Iso(20), Word("issued"), Iso(30) >>,
    << Sentinel, Word("to"), Iso(20) >>,
    << Sentinel, Word("to"), Sentinel >> }
CorrelatorReadingItems ==
  { [date |-> Iso(5), read_date |-> NoDate],
    [date |-> Iso(10), read_date |-> NoDate],
    [date |-> Iso(15), read_date |-> NoDate],
    [date |-> Iso(20), read_date |-> NoDate],
    [date |-> Iso(25), read_date |-> NoDate],
    [date |-> NoDate, read_date |-> Iso(25)],
    [date |-> Sentinel, read_date |-> Iso(25)],
    [date |-> NoDate, read_date |-> NoDate] }
CorrelatorElectricityBills ==
  [ invoice_number : {"INV-1"}, account_number : {"ACC-1"}, mprn : {"10001234567"},
    dg : { <<>> }, mcc : { <<>> }, name : { <<"Bord", "Gais">> },
    billing_period : CorrelatorPeriods, issue_date : { NoDate },
    meter_readings : SeqsUpTo(CorrelatorReadingItems, MaxCorrelatorReadings),
    unit_rates : {FALSE}, total_due : {0},
    usage_length : {0}, total_amount_due : {0} ]
CorrelatorGasBills ==
  [ invoice_number : {"INV-2"}, account_number : {"ACC-2"}, gprn : {"1234567"},
    name : { <<"Bord", "Gais">> },
    billing_period : { IsoPeriod }, issue_date : { NoDate },
    meter_readings : { <<>>, << [date |-> Iso(5), read_date |-> NoDate],
                               [date |-> Iso(15), read_date |-> NoDate] >> },
    unit_rates : {FALSE}, total_due : {0},
    usage_length : {0}, total_amount_due : {0},
    conversion_factor : {0}, calorific_value : {0} ]
CorrelatorExtractions ==
  [ electricity : OptionalBill(CorrelatorElectricityBills),
    gas : OptionalBill(CorrelatorGasBills) ]

\* ---- inputs of normalizePhone, prefixMcc and prefixDg: every string of
\* letters of both cases, a digit and a blank
CodeChars == {"m", "M", "c", "C", "d", "G", "1", " "}
CodeStrings == SeqsUpTo(CodeChars, MaxCodeLen)

\* ---- inputs of calculateConfidenceScore
DmyPeriodReversed == << Dmy(20), Word("-"), Dmy(10) >>
LateDmyReading == [date |-> Dmy(25), read_date |-> NoDate]
InsideDmyReading == [date |-> Dmy(15), read_date |-> NoDate]
LateDmyReadings(k) == [i \in 1..k |-> LateDmyReading]

ScoreReadings ==
  { LateDmyReadings(k) : k \in 0..MaxScoreReadings }
    \cup { << InsideDmyReading >>, << LateReading >>, << InsideDmyReading, LateDmyReading >> }

ScoreElectricityBills ==
  [ invoice_number : {"", "INV-1"}, account_number : {"", "ACC-1"},
    mprn : {"", "10001234567"}, dg : { <<>> }, mcc : { <<>> },
    name : { <<"Bord", "Gais">> },
    billing_period : { <<>>, IsoPeriod, DmyPeriod, DmyPeriodReversed },
    issue_date : { NoDate, Dmy(15), Dmy(30) },
    meter_readings : ScoreReadings,
    unit_rates : {FALSE}, total_due : {0},
    usage_length : {0}, total_amount_due : {0, 50} ]

ScoreGasBills ==
  [ invoice_number : {"INV-2"}, account_number : {"", "ACC-2"},
    gprn : {"1234567"}, name : { <<"Bord", "Gais">> },
    billing_period : { DmyPeriod }, issue_date : { Dmy(15) },
    meter_readings : { <<>>, LateDmyReadings(2) },
    unit_rates : {FALSE}, total_due : {0},
    usage_length : {0}, total_amount_due : {0},
    conversion_factor : {0}, calorific_value : {0} ]

\* bills.cus_details[0].details
CustomerDetails == [ customer_name : {"", "Ann Byrne"}, address : {"", "1 Main St"} ]

ScoreExtractions ==
  [ cus_details : { << c >> : c \in CustomerDetails },
    electricity : OptionalBill(ScoreElectricityBills),
    gas : OptionalBill(ScoreGasBills) ]

\* ---- what the AI gateway answers: a status, and whether the body holds
\* choices[0].message.tool_calls[0]
AiAnswers == [ status : {200, 400, 500}, toolCall : BOOLEAN, threw : {FALSE} ]
\* the fetch of the gateway, or the reading of its answer, throws
AiThrew == [ status |-> 0, toolCall |-> FALSE, threw |-> TRUE ]
\* how many page URLs convertPdfToStorageUrls returns (at most 3)
ConversionResults == {0, 1, 3}

\* ---- the api_configs table and the service flags of a parsed bill
ConfigRows ==
  [ service_type : {"electricity", "gas", "meter"},
    endpoint_url : {"https://api.onebill.ie/a", "https://api.onebill.ie/b"},
    is_active : BOOLEAN ]
ConfigStores == SeqsUpTo(ConfigRows, MaxConfigRows)
ServiceFlags == [ electricity : BOOLEAN, gas : BOOLEAN, meter : BOOLEAN ]

\* ================================================== onebill-vision-parse
\* parsedData.bills.gas = [] / parsedData.bills.electricity = []
Clear(b, which) ==
  CASE which = "gas"         -> [b EXCEPT !.gas = <<>>]
    [] which = "electricity" -> [b EXCEPT !.electricity = <<>>]
    [] OTHER                 -> b

\* the validator's console.warn lines for one extraction; every rule reads
\* the bill objects and the counts captured before rule 1
validationLogOf(eData, gData, ePoints, gPoints) ==
  [ rule1 |-> Rule1(ePoints, gPoints),
    rule2 |-> Rule2(eData, gData, ePoints, gPoints),
    rule3Electricity |-> Rule3Electricity(eData, ePoints),
    rule3Gas |-> Rule3Gas(gData, gPoints) ]

\* the bill arrays after the assignments of rules 1, 2 and 3
validatedBills(parsed, log) ==
  LET afterRule1 == Clear(parsed, log.rule1)
      afterRule2 == Clear(afterRule1, log.rule2)
      afterRule3E == IF log.rule3Electricity THEN Clear(afterRule2, "electricity") ELSE afterRule2
  IN IF log.rule3Gas THEN Clear(afterRule3E, "gas") ELSE afterRule3E

\* variant: the classifier reads the bills captured before validation
classifyCaptured(b) ==
  [ hasElectricityIdentifierForClassification |-> hasElectricityIdentifierForClassificationOf(electricityData'),
    electricityBillingIndicators |-> electricityBillingIndicatorsOf(electricityData'),
    hasElectricityData |-> hasElectricityDataOf(electricityData'),
    hasGasIdentifierForClassification |-> hasGasIdentifierForClassificationOf(gasData'),
    gasBillingIndicators |-> gasBillingIndicatorsOf(gasData'),
    hasGasData |-> hasGasDataOf(gasData'),
    electricityDateWarnings |-> DateWarningsOf(electricityData'),
    gasDateWarnings |-> DateWarningsOf(gasData') ]

classify(b) ==
  [ hasElectricityIdentifierForClassification |-> hasElectricityIdentifierForClassificationOf(b.electricity),
    electricityBillingIndicators |-> electricityBillingIndicatorsOf(b.electricity),
    hasElectricityData |-> hasElectricityDataOf(b.electricity),
    hasGasIdentifierForClassification |-> hasGasIdentifierForClassificationOf(b.gas),
    gasBillingIndicators |-> gasBillingIndicatorsOf(b.gas),
    hasGasData |-> hasGasDataOf(b.gas),
    electricityDateWarnings |-> DateWarningsOf(b.electricity),
    gasDateWarnings |-> DateWarningsOf(b.gas) ]

\* ------------------------------------------------------------ vision phase
\* variant: every 2xx answer is taken as a structured result
structuredResultAnyOk(answer) == answer.status >= 200 /\ answer.status <= 299

\* aiResponse.ok and a tool call in the answer
structuredResult(answer) ==
  answer.status >= 200 /\ answer.status <= 299 /\ answer.toolCall

\* variant: the fallback is taken for every 400 on a PDF
fallsBackToConversionAgain(answer, pdf, used) == answer.status = 400 /\ pdf

\* !aiResponse.ok && aiResponse.status === 400 && isPdf && !usedConversion
fallsBackToConversion(answer, pdf, used) == answer.status = 400 /\ pdf /\ ~used

\* the error responses of the vision phase, all of them HTTP 500
AiParsingFailed(status) == [ http |-> 500, error |-> "AI parsing failed", status |-> status ]
NoStructuredData == [ http |-> 500, error |-> "No structured data returned from AI", status |-> 0 ]
FailedToProcessPdf == [ http |-> 500, error |-> "Failed to process PDF", status |-> 0 ]
CaughtError == [ http |-> 500, error |-> "error.message", status |-> 0 ]

\* the gateway answers without a structured result: PDF fallback, or an
\* error response
AiAnswersWithoutResult ==
  /\ pc = "await_ai"
  /\ \E answer \in AiAnswers :
       /\ ~structuredResult(answer)
       /\ aiLog' = Append(aiLog, answer)
       /\ IF fallsBackToConversion(answer, isPdf, usedConversion)
            THEN /\ pc' = "converting"
                 /\ UNCHANGED errorResponse
            ELSE /\ pc' = "failed"
                 /\ errorResponse' =
                      << IF answer.status >= 200 /\ answer.status <= 299
                           THEN NoStructuredData ELSE AiParsingFailed(answer.status) >>
  /\ UNCHANGED << isPdf, usedConversion, visionCalls, convertedUrls >>
  /\ UNCHANGED << phone, bills, electricityData, gasData, electricityDataPoints,
                  gasDataPoints, validationLog, classification, apiCalls, callPc,
                  started, posts, settleOrder, apiResults, received, response >>
  /\ UNCHANGED << retryVars, fnVars, uiVars >>

\* the fetch of the gateway, aiResponse.json() or JSON.parse throws: the
\* handler's outer catch answers
AiThrows ==
  /\ pc = "await_ai"
  /\ aiLog' = Append(aiLog, AiThrew)
  /\ pc' = "failed"
  /\ errorResponse' = << CaughtError >>
  /\ UNCHANGED << isPdf, usedConversion, visionCalls, convertedUrls >>
  /\ UNCHANGED << phone, bills, electricityData, gasData, electricityDataPoints,
                  gasDataPoints, validationLog, classification, apiCalls, callPc,
                  started, posts, settleOrder, apiResults, received, response >>
  /\ UNCHANGED << retryVars, fnVars, uiVars >>

\* convertPdfToStorageUrls returns (it catches its own errors): no URL ends
\* the request, otherwise the gateway is called again with the page images
PdfConverted ==
  /\ pc = "converting"
  /\ \E n \in ConversionResults :
       /\ convertedUrls' = Append(convertedUrls, n)
       /\ IF n = 0
            THEN /\ pc' = "failed"
                 /\ errorResponse' = << FailedToProcessPdf >>
                 /\ UNCHANGED << usedConversion, visionCalls >>
            ELSE /\ pc' = "await_ai"
                 /\ usedConversion' = TRUE
                 /\ visionCalls' = visionCalls + 1
                 /\ UNCHANGED errorResponse
  /\ UNCHANGED << isPdf, aiLog >>
  /\ UNCHANGED << phone, bills, electricityData, gasData, electricityDataPoints,
                  gasDataPoints, validationLog, classification, apiCalls, callPc,
                  started, posts, settleOrder, apiResults, received, response >>
  /\ UNCHANGED << retryVars, fnVars, uiVars >>

\* apiCalls.map(async ...): every callback runs up to its first await, the
\* fetch of the original file
startAll(calls) == [i \in 1..Len(calls) |-> "file"]

\* The AI answer arrives with a tool call: JSON.parse, validation,
\* classification, building of the calls and start of every call, all of it
\* synchronous code between two awaits.
ParseAndRoute(Inputs) ==
  /\ pc = "await_ai"
  /\ \E answer \in AiAnswers :
       /\ structuredResult(answer)
       /\ aiLog' = Append(aiLog, answer)
  /\ \E parsed \in Inputs :
       /\ electricityData' = First(parsed.electricity)
       /\ gasData' = First(parsed.gas)
       /\ electricityDataPoints' = countElectricityData(electricityData')
       /\ gasDataPoints' = countGasData(gasData')
       /\ validationLog' = validationLogOf(electricityData', gasData',
                                           electricityDataPoints', gasDataPoints')
       /\ bills' = validatedBills(parsed, validationLog')
  /\ classification' = classify(bills')
  /\ apiCalls' = buildApiCalls(phone, bills'.electricity, bills'.gas,
                               classification'.hasElectricityData,
                               classification'.hasGasData)
  /\ callPc' = startAll(apiCalls')
  /\ started' = [i \in 1..Len(apiCalls') |-> 1]
  /\ posts' = [i \in 1..Len(apiCalls') |-> <<>>]
  /\ apiResults' = [i \in 1..Len(apiCalls') |-> <<>>]
  /\ received' = [i \in 1..Len(apiCalls') |-> <<>>]
  /\ settleOrder' = <<>>
  /\ pc' = "dispatching"
  /\ UNCHANGED << phone, response >>
  /\ UNCHANGED << isPdf, usedConversion, visionCalls, convertedUrls, errorResponse >>
  /\ UNCHANGED << retryVars, fnVars, uiVars >>

\* the multipart form a call POSTs once the file is attached
formOf(call, ph) ==
  [ file |-> TRUE,
    fields |-> IF call.type = "meter" THEN << [phone |-> ph] >> ELSE call.payload ]

\* fetch(fileUrl) and arrayBuffer() succeed: the form is built and POSTed
FileFetched(i) ==
  /\ pc = "dispatching"
  /\ i \in 1..Len(apiCalls)
  /\ callPc[i] = "file"
  /\ callPc' = [callPc EXCEPT ![i] = "post"]
  /\ posts' = [posts EXCEPT ![i] = Append(@, formOf(apiCalls[i], phone))]
  /\ UNCHANGED << pc, phone, bills, electricityData, gasData, electricityDataPoints,
                  gasDataPoints, validationLog, classification, apiCalls, started,
                  settleOrder, apiResults, received, response >>
  /\ UNCHANGED << retryVars, fnVars, visionVars, uiVars >>

\* the outer catch of a call: status 500, ok false, truncated message
errorResult(call, message) ==
  [ type |-> call.type, endpoint |-> call.endpoint, status |-> 500, ok |-> FALSE,
    kind |-> "error", text |-> slice(message, 4096) ]

\* the normal return of a call
responseResult(call, status, responseText) ==
  [ type |-> call.type, endpoint |-> call.endpoint, status |-> status,
    ok |-> (status >= 200 /\ status <= 299),
    kind |-> "response", text |-> slice(responseText, 4096) ]

\* the call's promise settles with a result; what came back is kept aside
Settle(i, result, cameBack) ==
  /\ callPc' = [callPc EXCEPT ![i] = "settled"]
  /\ apiResults' = [apiResults EXCEPT ![i] = << result >>]
  /\ received' = [received EXCEPT ![i] = << cameBack >>]
  /\ settleOrder' = Append(settleOrder, i)

\* what came back to a call: an error thrown with a message, a response
\* whose body was read, or a response whose body could not be read
Thrown(message) == [kind |-> "thrown", text |-> << message >>]
BodyRead(body) == [kind |-> "body", text |-> << body >>]
BodyUnreadable == [kind |-> "unreadable", text |-> <<>>]

\* fetch(fileUrl) throws: rethrown, caught by the call's outer catch
FileFetchThrows(i) ==
  /\ pc = "dispatching"
  /\ i \in 1..Len(apiCalls)
  /\ callPc[i] = "file"
  /\ \E message \in ErrorTexts :
       Settle(i, errorResult(apiCalls[i], message), Thrown(message))
  /\ UNCHANGED << pc, phone, bills, electricityData, gasData, electricityDataPoints,
                  gasDataPoints, validationLog, classification, apiCalls, started,
                  posts, response >>
  /\ UNCHANGED << retryVars, fnVars, visionVars, uiVars >>

\* the endpoint answers; apiResponse.text() either yields the body or throws
EndpointResponds(i) ==
  /\ pc = "dispatching"
  /\ i \in 1..Len(apiCalls)
  /\ callPc[i] = "post"
  /\ \E status \in Statuses, body \in Texts, readable \in BOOLEAN :
       Settle(i, responseResult(apiCalls[i], status,
                                IF readable THEN body ELSE FailedToReadBody),
              IF readable THEN BodyRead(body) ELSE BodyUnreadable)
  /\ UNCHANGED << pc, phone, bills, electricityData, gasData, electricityDataPoints,
                  gasDataPoints, validationLog, classification, apiCalls, started,
                  posts, response >>
  /\ UNCHANGED << retryVars, fnVars, visionVars, uiVars >>

\* fetch(endpoint) throws (network error)
EndpointThrows(i) ==
  /\ pc = "dispatching"
  /\ i \in 1..Len(apiCalls)
  /\ callPc[i] = "post"
  /\ \E message \in ErrorTexts :
       Settle(i, errorResult(apiCalls[i], message), Thrown(message))
  /\ UNCHANGED << pc, phone, bills, electricityData, gasData, electricityDataPoints,
                  gasDataPoints, validationLog, classification, apiCalls, started,
                  posts, response >>
  /\ UNCHANGED << retryVars, fnVars, visionVars, uiVars >>

\* variant: some() in place of every()
allSuccessfulOfSome(results) == \E i \in 1..Len(results) : results[i].ok

\* apiResults.every(result => result.ok)
allSuccessfulOf(results) == \A i \in 1..Len(results) : results[i].ok

\* variant: the results are collected in the order the calls settled
resultsOfBySettleOrder(settled) == [i \in 1..Len(settled) |-> settled[settleOrder[i]][1]]

\* Promise.all resolved: the results in the order of apiCalls
resultsOf(settled) == [i \in 1..Len(settled) |-> settled[i][1]]

responseBody(b, cls, results) ==
  [ ok |-> allSuccessfulOf(results),
    confidence_score |-> calculateConfidenceScore(b, cls.hasElectricityData, cls.hasGasData),
    services_detected |->
      [ electricity |-> cls.hasElectricityData,
        gas |-> cls.hasGasData,
        meter |-> ~cls.hasElectricityData /\ ~cls.hasGasData ],
    classification_details |->
      [ electricity_billing_indicators |-> cls.electricityBillingIndicators,
        gas_billing_indicators |-> cls.gasBillingIndicators,
        electricity_date_warnings |-> cls.electricityDateWarnings,
        gas_date_warnings |-> cls.gasDateWarnings ],
    api_calls |-> results ]

\* every call settled: confidence score, aggregate ok flag, response
Respond ==
  /\ pc = "dispatching"
  /\ \A i \in 1..Len(apiCalls) : callPc[i] = "settled"
  /\ response' = << responseBody(bills, classification, resultsOf(apiResults)) >>
  /\ pc' = "responded"
  /\ UNCHANGED << phone, bills, electricityData, gasData, electricityDataPoints,
                  gasDataPoints, validationLog, classification, apiCalls, callPc,
                  started, posts, settleOrder, apiResults, received >>
  /\ UNCHANGED << retryVars, fnVars, visionVars, uiVars >>

\* ------------------------------------------------ calculateConfidenceScore
\* calculateConfidenceScore(parsedData, hasElectricityData, hasGasData) on an
\* extraction and two flags of the caller's choice
ScoreExtraction ==
  /\ fn = "none"
  /\ \E b \in ScoreExtractions, hasElectricityData \in BOOLEAN, hasGasData \in BOOLEAN :
       /\ fnArgs' = << [ bills |-> b, hasElectricityData |-> hasElectricityData,
                         hasGasData |-> hasGasData ] >>
       /\ fnResult' =
            << [ keyFieldScore |-> keyFieldsSubScore(hasElectricityData, hasGasData),
                 completenessScore |-> completenessSubScore(b, hasElectricityData, hasGasData),
                 dateScore |-> dateSubScore(b, hasElectricityData, hasGasData),
                 score |-> calculateConfidenceScore(b, hasElectricityData, hasGasData) ] >>
  /\ fn' = "calculateConfidenceScore"
  /\ UNCHANGED << parseVars, retryVars, visionVars, uiVars >>

\* ------------------------------------------------------------ normalisers
\* each normaliser applied to a string, and again to what it returned
ApplyPrefixMcc ==
  /\ fn = "none"
  /\ \E x \in CodeStrings :
       /\ fnArgs' = << x >>
       /\ fnResult' = << [ once |-> prefixMcc(x), twice |-> prefixMcc(prefixMcc(x)) ] >>
  /\ fn' = "prefixMcc"
  /\ UNCHANGED << parseVars, retryVars, visionVars, uiVars >>

ApplyPrefixDg ==
  /\ fn = "none"
  /\ \E x \in CodeStrings :
       /\ fnArgs' = << x >>
       /\ fnResult' = << [ once |-> prefixDg(x), twice |-> prefixDg(prefixDg(x)) ] >>
  /\ fn' = "prefixDg"
  /\ UNCHANGED << parseVars, retryVars, visionVars, uiVars >>

ApplyNormalizePhone ==
  /\ fn = "none"
  /\ \E x \in CodeStrings :
       /\ fnArgs' = << x >>
       /\ fnResult' = << [ once |-> normalizePhone(x),
                           twice |-> normalizePhone(normalizePhone(x)) ] >>
  /\ fn' = "normalizePhone"
  /\ UNCHANGED << parseVars, retryVars, visionVars, uiVars >>

\* ---------------------------------------------- routing by api_configs
\* variant: the query has no filter on is_active
activeRowsAll(store) == store

\* .from('api_configs').select(...).eq('is_active', true)
activeRows(store) == SelectSeq(store, LAMBDA row : row.is_active)

\* the rows come back in an order the query does not fix
QueryResults(store) ==
  LET rows == activeRows(store)
      n == Len(rows)
  IN { [i \in 1..n |-> rows[p[i]]] : p \in Permutations(1..n) }

\* apiConfigs?.find(c => c.service_type === type): the first such row
RECURSIVE findConfig(_, _, _)
findConfig(apiConfigs, type, i) ==
  IF i > Len(apiConfigs) THEN <<>>
  ELSE IF apiConfigs[i].service_type = type THEN << apiConfigs[i] >>
  ELSE findConfig(apiConfigs, type, i + 1)

\* the push of one service's call, when its flag is set and a row is found
configCall(apiConfigs, flag, type) ==
  LET config == findConfig(apiConfigs, type, 1) IN
  IF flag /\ config # <<>>
    THEN << [ endpoint |-> config[1].endpoint_url, type |-> type ] >>
    ELSE <<>>

configCalls(apiConfigs, services) ==
  configCall(apiConfigs, services.electricity, "electricity")
    \o configCall(apiConfigs, services.gas, "gas")
    \o configCall(apiConfigs, services.meter, "meter")

\* the service flags are checked, the active rows are fetched and the calls
\* are built from them
RouteByConfig ==
  /\ fn = "none"
  /\ \E store \in ConfigStores, services \in ServiceFlags, configError \in BOOLEAN :
       /\ fnArgs' = << [ store |-> store, services |-> services ] >>
       /\ IF ~services.electricity /\ ~services.gas /\ ~services.meter
            THEN fnResult' = << [ consulted |-> FALSE, http |-> 400,
                                  apiConfigs |-> <<>>, apiCalls |-> <<>> ] >>
            ELSE IF configError
              THEN fnResult' = << [ consulted |-> TRUE, http |-> 500,
                                    apiConfigs |-> <<>>, apiCalls |-> <<>> ] >>
              ELSE \E apiConfigs \in QueryResults(store) :
                     fnResult' = << [ consulted |-> TRUE, http |-> 200,
                                      apiConfigs |-> apiConfigs,
                                      apiCalls |-> configCalls(apiConfigs, services) ] >>
  /\ fn' = "apiConfigs"
  /\ UNCHANGED << parseVars, retryVars, visionVars, uiVars >>

\* ============================================================ onebill-retry
MAX_RETRIES == 3
BASE_DELAY == 500

RECURSIVE Pow2(_)
Pow2(n) == IF n = 0 THEN 1 ELSE 2 * Pow2(n - 1)

\* BASE_DELAY * Math.pow(2, attempt)
retryDelay(n) == BASE_DELAY * Pow2(n)

\* resp.ok
respOk(status) == status >= 200 /\ status <= 299
\* variant: every status from 400 on is retried
retryableStatusFrom400(status) == status >= 400

\* resp.status >= 500 || resp.status === 429
retryableStatus(status) == status >= 500 \/ status = 429

EmptyText == [id |-> "", len |-> 0]
PhoneRequired == [id |-> "Phone is required for meter retry", len |-> 33]
MissingEndpointOrType == [id |-> "Missing endpoint or type", len |-> 24]

RetryBodies ==
  [ type : {"", "meter", "electricity"},
    endpoint : {"", "https://api.onebill.ie/api/x-file"},
    phone : { <<>>, <<"0", "8", "7">> },
    fileRef : BOOLEAN ]

\* variant: a meter retry without phone is rejected with the request
missingEndpointOrTypeOrPhone(body) ==
  body.endpoint = "" \/ body.type = "" \/ (body.type = "meter" /\ body.phone = <<>>)

\* if (!endpoint || !type)
missingEndpointOrType(body) == body.endpoint = "" \/ body.type = ""

\* the request body is read and checked; the loop variables are initialised
RetryRequest ==
  /\ rpc = "request"
  /\ \E body \in RetryBodies :
       /\ retryBody' = << body >>
       /\ IF missingEndpointOrType(body)
            THEN /\ retryResponse' = << [ http |-> 400, ok |-> FALSE, status |-> 0,
                                         text |-> MissingEndpointOrType ] >>
                 /\ rpc' = "returned"
            ELSE /\ retryResponse' = <<>>
                 /\ rpc' = "attempt"
  /\ attempt' = 0
  /\ lastStatus' = 0
  /\ lastText' = EmptyText
  /\ attemptLog' = <<>>
  /\ sleeps' = <<>>
  /\ UNCHANGED << parseVars, fnVars, visionVars, uiVars >>

\* the two return statements of the loop's function
retryReturnOk(status, text) ==
  [ http |-> 200, ok |-> TRUE, status |-> status, text |-> slice(text, 4096) ]

\* variant: the failed run is answered with the last status as HTTP status
retryReturnFailedAsHttpError(status, text) ==
  [ http |-> status, ok |-> FALSE, status |-> status, text |-> slice(text, 4096) ]

retryReturnFailed(status, text) ==
  [ http |-> 200, ok |-> FALSE, status |-> status, text |-> slice(text, 4096) ]

\* variant: the backoff is also taken after the last attempt
retriesAfterStatusAlways(n, status) == n < MAX_RETRIES /\ retryableStatus(status)

\* after an attempt that did not return ok: does the loop sleep and go on?
retriesAfterStatus(n, status) == n < MAX_RETRIES - 1 /\ retryableStatus(status)

\* variant: a thrown attempt is given one retry only
retriesAfterThrowOnce(n) == n < MAX_RETRIES - 2

\* after an attempt that threw: does the catch branch sleep and go on?
retriesAfterThrow(n) == n < MAX_RETRIES - 1

\* the fetch of the original file inside an attempt: not tried without a
\* file reference, else the bytes or a caught error
fileFetchOutcome(fileRef, fileOk) ==
  IF ~fileRef THEN "none" ELSE IF fileOk THEN "ok" ELSE "failed"

\* variant: the form gets a file field whenever a file reference was given
formHasFileIfTried(outcome) == outcome # "none"

\* form.append("file", ...) is reached only after the bytes were read
formHasFile(outcome) == outcome = "ok"

\* what one pass through the loop body leaves behind, for the outcome
\* (status, text, threw) of the attempt
AfterAttempt(status, text, threw, entry) ==
  LET newStatus == IF threw THEN 500 ELSE status
      goesOn == IF threw THEN retriesAfterThrow(attempt) ELSE retriesAfterStatus(attempt, status)
  IN /\ lastStatus' = newStatus
     /\ lastText' = text
     /\ attemptLog' = Append(attemptLog, entry)
     /\ IF ~threw /\ respOk(status)
          THEN /\ retryResponse' = << retryReturnOk(newStatus, text) >>
               /\ rpc' = "returned"
               /\ UNCHANGED << attempt, sleeps >>
          ELSE IF goesOn
            THEN /\ sleeps' = Append(sleeps, retryDelay(attempt))
                 /\ rpc' = "sleeping"
                 /\ UNCHANGED << attempt, retryResponse >>
            ELSE /\ retryResponse' = << retryReturnFailed(newStatus, text) >>
                 /\ rpc' = "returned"
                 /\ UNCHANGED << attempt, sleeps >>

\* a meter retry without phone throws before any fetch
AttemptWithoutPhone ==
  /\ rpc = "attempt"
  /\ retryBody[1].type = "meter" /\ retryBody[1].phone = <<>>
  /\ AfterAttempt(500, PhoneRequired, TRUE,
                  [ attempt |-> attempt, contacted |-> FALSE,
                    fetch |-> "none", file |-> FALSE,
                    status |-> 500, text |-> PhoneRequired, threw |-> TRUE ])
  /\ UNCHANGED retryBody
  /\ UNCHANGED << parseVars, fnVars, visionVars, uiVars >>

\* the endpoint is POSTed and answers with a status and a readable body
AttemptResponds ==
  /\ rpc = "attempt"
  /\ ~(retryBody[1].type = "meter" /\ retryBody[1].phone = <<>>)
  /\ \E status \in Statuses, body \in Texts, fileOk \in BOOLEAN :
       AfterAttempt(status, body, FALSE,
                    [ attempt |-> attempt, contacted |-> TRUE,
                      fetch |-> fileFetchOutcome(retryBody[1].fileRef, fileOk),
                      file |-> formHasFile(fileFetchOutcome(retryBody[1].fileRef, fileOk)),
                      status |-> status, text |-> body, threw |-> FALSE ])
  /\ UNCHANGED retryBody
  /\ UNCHANGED << parseVars, fnVars, visionVars, uiVars >>

\* the POST throws, or resp.text() throws after the status was received
AttemptThrows ==
  /\ rpc = "attempt"
  /\ ~(retryBody[1].type = "meter" /\ retryBody[1].phone = <<>>)
  /\ \E message \in ErrorTexts, fileOk \in BOOLEAN :
       AfterAttempt(500, message, TRUE,
                    [ attempt |-> attempt, contacted |-> TRUE,
                      fetch |-> fileFetchOutcome(retryBody[1].fileRef, fileOk),
                      file |-> formHasFile(fileFetchOutcome(retryBody[1].fileRef, fileOk)),
                      status |-> 500, text |-> message, threw |-> TRUE ])
  /\ UNCHANGED retryBody
  /\ UNCHANGED << parseVars, fnVars, visionVars, uiVars >>

\* sleep(delay) resolves; continue: attempt++ and the loop condition
Wake ==
  /\ rpc = "sleeping"
  /\ attempt' = attempt + 1
  /\ IF attempt' < MAX_RETRIES
       THEN rpc' = "attempt" /\ UNCHANGED retryResponse
       ELSE /\ rpc' = "returned"
            /\ retryResponse' = << retryReturnFailed(lastStatus, lastText) >>
  /\ UNCHANGED << retryBody, lastStatus, lastText, attemptLog, sleeps >>
  /\ UNCHANGED << parseVars, fnVars, visionVars, uiVars >>

\* ============================================ upload page with retry panel
\* data.api_calls.filter(call => !call.ok): the failed calls of one answer,
\* in the order of the router's calls
FailedCallLists ==
  { <<>>, << "electricity" >>, << "gas" >>, << "electricity", "gas" >>, << "meter" >> }
\* a failed call of the n-th submit
FailedCall(n, type) == [ submit |-> n, type |-> type ]
\* `${call.type}-${index}`
retryKey(call, index) == [ type |-> call.type, index |-> index ]

\* handleSubmit with phone and file: setLoading(true); the button is
\* disabled while loading
HandleSubmit ==
  /\ ~loading
  /\ submits < MaxSubmits
  /\ loading' = TRUE
  /\ submits' = submits + 1
  /\ UNCHANGED << failedApiCalls, retrying, retriesInFlight, latestFailed, retriedOk >>
  /\ UNCHANGED << parseVars, retryVars, fnVars, visionVars, parserVars >>

\* the parser answered: the failed calls replace the list, or the list is
\* emptied when every call was ok
SubmitAnswered ==
  /\ loading
  /\ \E types \in FailedCallLists :
       LET failed == [i \in 1..Len(types) |-> FailedCall(submits, types[i])] IN
       /\ failedApiCalls' = IF Len(failed) > 0 THEN failed ELSE <<>>
       /\ latestFailed' = { failed[i] : i \in 1..Len(failed) }
  /\ loading' = FALSE
  /\ UNCHANGED << submits, retrying, retriesInFlight, retriedOk >>
  /\ UNCHANGED << parseVars, retryVars, fnVars, visionVars, parserVars >>

\* the upload or the invocation of the parser failed: catch and finally
SubmitThrows ==
  /\ loading
  /\ loading' = FALSE
  /\ UNCHANGED << submits, failedApiCalls, retrying, retriesInFlight,
                  latestFailed, retriedOk >>
  /\ UNCHANGED << parseVars, retryVars, fnVars, visionVars, parserVars >>

\* the retry button of the index-th listed call, enabled unless
\* retrying[key]: the flag is set and onebill-retry invoked
HandleRetry(index) ==
  /\ index \in 0..(Len(failedApiCalls) - 1)
  /\ LET call == failedApiCalls[index + 1]
         key == retryKey(call, index)
     IN /\ key \notin retrying
        /\ retrying' = retrying \cup {key}
        /\ retriesInFlight' = retriesInFlight \cup { [ key |-> key, call |-> call ] }
  /\ UNCHANGED << loading, submits, failedApiCalls, latestFailed, retriedOk >>
  /\ UNCHANGED << parseVars, retryVars, fnVars, visionVars, parserVars >>

\* onRetrySuccess of the page: setFailedApiCalls([])
onRetrySuccess(list, call) == <<>>

\* the invocation came back with data.ok: onRetrySuccess, then finally
RetrySucceeds ==
  /\ \E r \in retriesInFlight :
       /\ failedApiCalls' = onRetrySuccess(failedApiCalls, r.call)
       /\ retriedOk' = retriedOk \cup { r.call }
       /\ retrying' = retrying \ { r.key }
       /\ retriesInFlight' = retriesInFlight \ { r }
  /\ UNCHANGED << loading, submits, latestFailed >>
  /\ UNCHANGED << parseVars, retryVars, fnVars, visionVars, parserVars >>

\* the invocation came back without data.ok, or threw: a toast, then finally
RetryFails ==
  /\ \E r \in retriesInFlight :
       /\ retrying' = retrying \ { r.key }
       /\ retriesInFlight' = retriesInFlight \ { r }
  /\ UNCHANGED << loading, submits, failedApiCalls, latestFailed, retriedOk >>
  /\ UNCHANGED << parseVars, retryVars, fnVars, visionVars, parserVars >>

\* ============================================================ useBillParser
\* the sequence without its k-th element
RemoveAt(s, k) == [i \in 1..(Len(s) - 1) |-> IF i < k THEN s[i] ELSE s[i + 1]]

\* uploadFile(file): setUploading(true), setProgressStep("uploading"); one
\* run at a time
UploadFile ==
  /\ parserPc = "idle"
  /\ uploads < MaxUploads
  /\ uploads' = uploads + 1
  /\ uploading' = TRUE
  /\ progressStep' = "uploading"
  /\ parserPc' = "upload"
  /\ UNCHANGED << parserLoading, resetTimers, resetWhileBusy >>
  /\ UNCHANGED << parseVars, retryVars, fnVars, visionVars, panelVars >>

\* the storage upload returns an error: catch and finally of uploadFile
UploadFails ==
  /\ parserPc = "upload"
  /\ progressStep' = "error"
  /\ uploading' = FALSE
  /\ parserPc' = "idle"
  /\ UNCHANGED << uploads, parserLoading, resetTimers, resetWhileBusy >>
  /\ UNCHANGED << parseVars, retryVars, fnVars, visionVars, panelVars >>

\* the upload succeeded and parseBill returns at once: !phone.trim()
ParseWithoutPhone ==
  /\ parserPc = "upload"
  /\ uploading' = FALSE
  /\ parserPc' = "idle"
  /\ UNCHANGED << uploads, parserLoading, progressStep, resetTimers, resetWhileBusy >>
  /\ UNCHANGED << parseVars, retryVars, fnVars, visionVars, panelVars >>

\* the upload succeeded and parseBill issues its fetch
ParseBill ==
  /\ parserPc = "upload"
  /\ parserLoading' = TRUE
  /\ progressStep' = "analyzing"
  /\ parserPc' = "fetch"
  /\ UNCHANGED << uploads, uploading, resetTimers, resetWhileBusy >>
  /\ UNCHANGED << parseVars, retryVars, fnVars, visionVars, panelVars >>

\* the fetch resolved: setProgressStep("sending"), response.json() awaited
FetchResolves ==
  /\ parserPc = "fetch"
  /\ progressStep' = "sending"
  /\ parserPc' = "json"
  /\ UNCHANGED << uploads, uploading, parserLoading, resetTimers, resetWhileBusy >>
  /\ UNCHANGED << parseVars, retryVars, fnVars, visionVars, panelVars >>

\* the end of parseBill and of uploadFile: a step, a reset timer, and the
\* two finally blocks
ParseEnds(step, delay) ==
  /\ progressStep' = step
  /\ resetTimers' = Append(resetTimers, delay)
  /\ parserLoading' = FALSE
  /\ uploading' = FALSE
  /\ parserPc' = "idle"
  /\ UNCHANGED << uploads, resetWhileBusy >>
  /\ UNCHANGED << parseVars, retryVars, fnVars, visionVars, panelVars >>

\* the fetch threw
FetchThrows == parserPc = "fetch" /\ ParseEnds("error", 3000)
\* response.json() threw, or the response was not ok
ParseFailed == parserPc = "json" /\ ParseEnds("error", 3000)
\* the response was ok
ParseComplete == parserPc = "json" /\ ParseEnds("complete", 2000)

\* a pending setTimeout callback runs: setProgressStep("idle")
TimerFires(k) ==
  /\ k \in 1..Len(resetTimers)
  /\ progressStep' = "idle"
  /\ resetTimers' = RemoveAt(resetTimers, k)
  /\ resetWhileBusy' = (resetWhileBusy \/ uploading \/ parserLoading)
  /\ UNCHANGED << parserPc, uploads, uploading, parserLoading >>
  /\ UNCHANGED << parseVars, retryVars, fnVars, visionVars, panelVars >>

\* ========================================================== specifications
Phones == { <<"0", "8", "7", " ", "1", "2">> }

\* the first call of the AI gateway is in flight; the request passed the
\* checks of phone, file and keys
InitOfFile(pdfs) ==
  /\ isPdf \in pdfs
  /\ usedConversion = FALSE
  /\ visionCalls = 1
  /\ aiLog = <<>>
  /\ convertedUrls = <<>>
  /\ errorResponse = <<>>
  /\ pc = "await_ai"
  /\ phone \in Phones
  /\ bills = [electricity |-> <<>>, gas |-> <<>>]
  /\ electricityData = <<>>
  /\ gasData = <<>>
  /\ electricityDataPoints = 0
  /\ gasDataPoints = 0
  /\ validationLog = [rule1 |-> "none", rule2 |-> "none",
                      rule3Electricity |-> FALSE, rule3Gas |-> FALSE]
  /\ classification =
       [ hasElectricityIdentifierForClassification |-> FALSE,
         electricityBillingIndicators |-> 0, hasElectricityData |-> FALSE,
         hasGasIdentifierForClassification |-> FALSE,
         gasBillingIndicators |-> 0, hasGasData |-> FALSE,
         electricityDateWarnings |-> <<>>, gasDateWarnings |-> <<>> ]
  /\ apiCalls = <<>>
  /\ callPc = <<>>
  /\ started = <<>>
  /\ posts = <<>>
  /\ settleOrder = <<>>
  /\ apiResults = <<>>
  /\ received = <<>>
  /\ response = <<>>
  /\ rpc = "request"
  /\ retryBody = <<>>
  /\ attempt = 0
  /\ lastStatus = 0
  /\ lastText = EmptyText
  /\ attemptLog = <<>>
  /\ sleeps = <<>>
  /\ retryResponse = <<>>
  /\ fn = "none"
  /\ fnArgs = <<>>
  /\ fnResult = <<>>
  /\ loading = FALSE
  /\ submits = 0
  /\ failedApiCalls = <<>>
  /\ retrying = {}
  /\ retriesInFlight = {}
  /\ latestFailed = {}
  /\ retriedOk = {}
  /\ parserPc = "idle"
  /\ uploads = 0
  /\ uploading = FALSE
  /\ parserLoading = FALSE
  /\ progressStep = "idle"
  /\ resetTimers = <<>>
  /\ resetWhileBusy = FALSE

\* a request for an image file
Init == InitOfFile({FALSE})
\* a request for an image or for a PDF
InitVision == InitOfFile(BOOLEAN)

\* validation, classification and routing over every enumerated extraction
Next == ParseAndRoute(Extractions)
Spec == Init /\ [][Next]_vars

\* a full electricity bill, a full gas bill and a meter photo
FullElectricityBill ==
  [ invoice_number |-> "INV-1", account_number |-> "ACC-1", mprn |-> "10001234567",
    dg |-> <<>>, mcc |-> <<>>, name |-> <<"Bord", "Gais">>,
    billing_period |-> IsoPeriod, issue_date |-> NoDate,
    meter_readings |-> << LateReading >>, unit_rates |-> FALSE, total_due |-> 0,
    usage_length |-> 0, total_amount_due |-> 0 ]
FullGasBill ==
  [ invoice_number |-> "INV-2", account_number |-> "ACC-2", gprn |-> "1234567",
    name |-> <<"Bord", "Gais">>, billing_period |-> IsoPeriod, issue_date |-> NoDate,
    meter_readings |-> <<>>, unit_rates |-> TRUE, total_due |-> 50,
    usage_length |-> 0, total_amount_due |-> 0,
    conversion_factor |-> 0, calorific_value |-> 0 ]
\* the same electricity bill with the meter's mcc and dg as extracted
WithMeterTypes(bill, mcc, dg) == [bill EXCEPT !.mcc = mcc, !.dg = dg]
DispatchExtractions ==
  [ electricity : { <<>>, << FullElectricityBill >>,
                    << WithMeterTypes(FullElectricityBill, <<>>, <<"d", "g", "1">>) >>,
                    << WithMeterTypes(FullElectricityBill, <<"0", "1">>, <<"1">>) >>,
                    << WithMeterTypes(FullElectricityBill, <<"m", "c", "c", "0", "1">>, <<"D", "G", "1">>) >> },
    gas : { <<>>, << FullGasBill >> } ]

\* the dispatch of the built calls, every outcome and every completion order
NextDispatch ==
  \/ ParseAndRoute(DispatchExtractions)
  \/ \E i \in 1..2 : FileFetched(i)
  \/ \E i \in 1..2 : FileFetchThrows(i)
  \/ \E i \in 1..2 : EndpointResponds(i)
  \/ \E i \in 1..2 : EndpointThrows(i)
  \/ Respond
SpecDispatch == Init /\ [][NextDispatch]_vars

\* one run of the retry coordinator
NextRetry ==
  \/ RetryRequest
  \/ AttemptWithoutPhone
  \/ AttemptResponds
  \/ AttemptThrows
  \/ Wake
SpecRetry == Init /\ [][NextRetry]_vars

\* the same run under the scheduling of the runtime: the handler is run until
\* it returns, and every awaited fetch, body read and sleep settles
SpecRetryFair == Init /\ [][NextRetry]_vars /\ WF_vars(NextRetry)

\* the confidence score of every enumerated extraction and pair of flags
NextScore == ScoreExtraction
SpecScore == Init /\ [][NextScore]_vars

\* the normalisers on every enumerated string
NextNormalise ==
  \/ ApplyPrefixMcc
  \/ ApplyPrefixDg
  \/ ApplyNormalizePhone
SpecNormalise == Init /\ [][NextNormalise]_vars

\* validation, classification and date correlation of bills that differ in
\* their billing period and in the dates of their readings only
NextCorrelate == ParseAndRoute(CorrelatorExtractions)
SpecCorrelate == Init /\ [][NextCorrelate]_vars

\* one request, to the router or to the retry coordinator
NextEither ==
  \/ rpc = "request" /\ ParseAndRoute(DispatchExtractions)
  \/ \E i \in 1..2 : FileFetched(i)
  \/ \E i \in 1..2 : FileFetchThrows(i)
  \/ \E i \in 1..2 : EndpointResponds(i)
  \/ \E i \in 1..2 : EndpointThrows(i)
  \/ Respond
  \/ pc = "await_ai" /\ RetryRequest
  \/ AttemptWithoutPhone
  \/ AttemptResponds
  \/ AttemptThrows
  \/ Wake
SpecEither == Init /\ [][NextEither]_vars

\* one request from the first call of the AI gateway to the response
NextVision ==
  \/ AiAnswersWithoutResult
  \/ AiThrows
  \/ PdfConverted
  \/ ParseAndRoute(DispatchExtractions)
  \/ \E i \in 1..2 : FileFetched(i)
  \/ \E i \in 1..2 : FileFetchThrows(i)
  \/ \E i \in 1..2 : EndpointResponds(i)
  \/ \E i \in 1..2 : EndpointThrows(i)
  \/ Respond
SpecVision == InitVision /\ [][NextVision]_vars

\* the routing by api_configs on every enumerated table and service flags
NextConfig == RouteByConfig
SpecConfig == Init /\ [][NextConfig]_vars

\* the upload page: submits, their answers, and the retries of failed calls
NextPanel ==
  \/ HandleSubmit
  \/ SubmitAnswered
  \/ SubmitThrows
  \/ \E index \in 0..1 : HandleRetry(index)
  \/ RetrySucceeds
  \/ RetryFails
SpecPanel == Init /\ [][NextPanel]_vars

\* the hook: uploadFile runs and the reset timers they leave behind
NextParser ==
  \/ UploadFile
  \/ UploadFails
  \/ ParseWithoutPhone
  \/ ParseBill
  \/ FetchResolves
  \/ FetchThrows
  \/ ParseFailed
  \/ ParseComplete
  \/ \E k \in 1..MaxUploads : TimerFires(k)
SpecParser == Init /\ [][NextParser]_vars

\* ================================================================== claims
\* the statements below count signals on their own, by set cardinality
Validated == pc # "await_ai"

IndicatorSignals(b) ==
  IF b = <<>> THEN {}
  ELSE { f \in {"invoice_number", "account_number", "billing_period", "total_due",
                "meter_readings", "unit_rates"} :
           CASE f = "invoice_number" -> b[1].invoice_number # ""
             [] f = "account_number" -> b[1].account_number # ""
             [] f = "billing_period" -> Len(b[1].billing_period) > 0
             [] f = "total_due"      -> b[1].total_due > 0
             [] f = "meter_readings" -> Len(b[1].meter_readings) > 0
             [] OTHER                -> b[1].unit_rates }
IndicatorCount(b) == Cardinality(IndicatorSignals(b))

ElectricityIdentifiers(b) ==
  IF b = <<>> THEN {}
  ELSE { f \in {"mprn", "dg"} : IF f = "mprn" THEN b[1].mprn # "" ELSE Len(b[1].dg) > 0 }
GasIdentifiers(b) == IF b # <<>> /\ b[1].gprn # "" THEN {"gprn"} ELSE {}

\* data points: the indicators plus the identifiers
ElectricityPoints(b) == IndicatorCount(b) + Cardinality(ElectricityIdentifiers(b))
GasPoints(b) == IndicatorCount(b) + Cardinality(GasIdentifiers(b))

NoBillingFields(b) ==
  IndicatorSignals(b) \cap {"invoice_number", "account_number", "billing_period"} = {}

\* a supplier name that contains, whatever the letter case, one of the names
SupplierIn(b, names) ==
  /\ b # <<>>
  /\ \E p \in names : \E i \in 0..(Len(b[1].name) - Len(p)) :
       \A j \in 1..Len(p) : LowerWord(b[1].name[i + j]) = p[j]

\* C1: after validation a utility is classified present exactly when its
\* identifier is present and at least 3 of its 6 billing indicators are.
C1_ClassifiedIffIdentifierAndThree ==
  Validated =>
    /\ classification.hasElectricityData <=>
         (ElectricityIdentifiers(bills.electricity) # {} /\ IndicatorCount(bills.electricity) >= 3)
    /\ classification.hasGasData <=>
         (GasIdentifiers(bills.gas) # {} /\ IndicatorCount(bills.gas) >= 3)

\* C1 witness: a bill with a valid mprn and only 2 indicators survived the
\* validator and was not classified as electricity
C1_Witness ==
  /\ Validated
  /\ bills.electricity # <<>>
  /\ bills.electricity[1].mprn # ""
  /\ IndicatorCount(bills.electricity) = 2
  /\ ~classification.hasElectricityData

\* C3 as stated: one utility with at least 4 of the 6 billing indicators and
\* the other with 1 or 2 of them has the weaker bill array cleared.
C3_IndicatorCountsClearWeaker ==
  Validated =>
    /\ (IndicatorCount(electricityData) >= 4 /\ IndicatorCount(gasData) \in {1, 2})
         => bills.gas = <<>>
    /\ (IndicatorCount(gasData) >= 4 /\ IndicatorCount(electricityData) \in {1, 2})
         => bills.electricity = <<>>

\* C3 amended: the counts of rule 1 are data points (the 6 indicators plus
\* the identifiers present); one utility with at least 4 data points and the
\* other with 1 or 2 has the weaker bill array cleared.
C3_DataPointsClearWeaker ==
  Validated =>
    /\ (ElectricityPoints(electricityData) >= 4 /\ GasPoints(gasData) \in {1, 2})
         => bills.gas = <<>>
    /\ (GasPoints(gasData) >= 4 /\ ElectricityPoints(electricityData) \in {1, 2})
         => bills.electricity = <<>>

\* C3 witness: gas with a gprn and one indicator next to a strong
\* electricity bill of another supplier; rule 1 cleared gas
C3_Witness ==
  /\ Validated
  /\ ElectricityPoints(electricityData) >= 4
  /\ GasPoints(gasData) = 2 /\ GasIdentifiers(gasData) # {}
  /\ validationLog.rule1 = "gas"
  /\ validationLog.rule2 = "none"
  /\ bills.gas = <<>>

\* C4 as stated: each direction of rule 2 applies whenever its own
\* condition holds, also when both hold at once.
C4_BothDirectionsApply ==
  Validated =>
    /\ (SupplierIn(electricityData, electricityOnlyProviders) /\ GasPoints(gasData) > 0)
         => bills.gas = <<>>
    /\ (SupplierIn(gasData, gasOnlyProviders) /\ ElectricityPoints(electricityData) > 0)
         => bills.electricity = <<>>

\* C4 amended: the electricity-only direction applies whenever its condition
\* holds; the gas-only direction applies when its condition holds and the
\* electricity-only direction did not apply.
C4_ElectricityOnlyDirectionFirst ==
  Validated =>
    /\ (SupplierIn(electricityData, electricityOnlyProviders) /\ GasPoints(gasData) > 0)
         => bills.gas = <<>>
    /\ ( /\ SupplierIn(gasData, gasOnlyProviders) /\ ElectricityPoints(electricityData) > 0
         /\ ~(SupplierIn(electricityData, electricityOnlyProviders) /\ GasPoints(gasData) > 0) )
         => bills.electricity = <<>>

\* C4 witness: both suppliers are single-service ones and both branches have
\* data; gas was cleared and electricity was kept
C4_Witness ==
  /\ Validated
  /\ SupplierIn(electricityData, electricityOnlyProviders) /\ GasPoints(gasData) > 0
  /\ SupplierIn(gasData, gasOnlyProviders) /\ ElectricityPoints(electricityData) > 0
  /\ bills.gas = <<>>
  /\ bills.electricity # <<>>

\* C5: a utility with its identifier, none of invoice_number, account_number,
\* billing_period, and at most one billing indicator has its array cleared.
C5_IdentifierWithoutBillingFieldsCleared ==
  Validated =>
    /\ ( /\ ElectricityIdentifiers(electricityData) # {}
         /\ NoBillingFields(electricityData)
         /\ IndicatorCount(electricityData) <= 1 ) => bills.electricity = <<>>
    /\ ( /\ GasIdentifiers(gasData) # {}
         /\ NoBillingFields(gasData)
         /\ IndicatorCount(gasData) <= 1 ) => bills.gas = <<>>

\* the validator with every rule evaluated on the data the earlier rules left
FreshRule2(b) ==
  Rule2(First(b.electricity), First(b.gas),
        countElectricityData(First(b.electricity)), countGasData(First(b.gas)))
FreshRule3(b) ==
  LET e == IF Rule3Electricity(First(b.electricity), countElectricityData(First(b.electricity)))
             THEN Clear(b, "electricity") ELSE b
  IN IF Rule3Gas(First(b.gas), countGasData(First(b.gas))) THEN Clear(e, "gas") ELSE e
SequentialValidation(parsed) ==
  LET afterRule1 == Clear(parsed, Rule1(countElectricityData(First(parsed.electricity)),
                                        countGasData(First(parsed.gas))))
      afterRule2 == Clear(afterRule1, FreshRule2(afterRule1))
  IN FreshRule3(afterRule2)

\* C6: every later validation rule evaluates its condition on the data as
\* left by the earlier rules, so the validated bill arrays are those of the
\* rules run one after the other on the current data.
C6_LaterRulesSeeEarlierClears ==
  Validated =>
    bills = SequentialValidation([electricity |-> electricityData, gas |-> gasData])

\* the branches some rule of the validator cleared
ElectricityCleared ==
  \/ validationLog.rule1 = "electricity"
  \/ validationLog.rule2 = "electricity"
  \/ validationLog.rule3Electricity
GasCleared ==
  \/ validationLog.rule1 = "gas"
  \/ validationLog.rule2 = "gas"
  \/ validationLog.rule3Gas

\* C7: a branch that a validation rule cleared reports indicator count 0, is
\* not classified present and yields no date warning.
C7_ClearedBranchReportsNothing ==
  Validated =>
    /\ ElectricityCleared =>
         /\ classification.electricityBillingIndicators = 0
         /\ ~classification.hasElectricityData
         /\ classification.electricityDateWarnings = <<>>
    /\ GasCleared =>
         /\ classification.gasBillingIndicators = 0
         /\ ~classification.hasGasData
         /\ classification.gasDateWarnings = <<>>

\* C7 witness: the cleared gas bill had a billing period and a reading dated
\* outside it
C7_Witness ==
  /\ Validated
  /\ GasCleared
  /\ IndicatorSignals(gasData) = {"billing_period", "meter_readings"}
  /\ validateMeterReadingDates(gasData[1].billing_period, gasData[1].meter_readings) # <<>>
  /\ classification.gasBillingIndicators = 0
  /\ classification.gasDateWarnings = <<>>

\* the types of the built calls
CallTypes == { apiCalls[i].type : i \in 1..Len(apiCalls) }

\* C2: an electricity call iff hasElectricity, a gas call iff hasGas, a meter
\* call iff neither; 1 or 2 calls, never 0; the reported meter flag is
\* !hasElectricity && !hasGas.
C2_CallsFollowClassification ==
  Validated =>
    /\ ("electricity" \in CallTypes) <=> classification.hasElectricityData
    /\ ("gas" \in CallTypes) <=> classification.hasGasData
    /\ ("meter" \in CallTypes) <=>
         (~classification.hasElectricityData /\ ~classification.hasGasData)
    /\ ("meter" \in CallTypes) => CallTypes = {"meter"}
    /\ Len(apiCalls) \in {1, 2}
    /\ Cardinality(CallTypes) = Len(apiCalls)
    /\ response # <<>> =>
         /\ response[1].services_detected.meter <=> ("meter" \in CallTypes)
         /\ response[1].services_detected.electricity <=> ("electricity" \in CallTypes)
         /\ response[1].services_detected.gas <=> ("gas" \in CallTypes)

\* C2 witness: a gas-only bill answered with one gas call and meter = false
C2_Witness ==
  /\ response # <<>>
  /\ classification.hasGasData /\ ~classification.hasElectricityData
  /\ CallTypes = {"gas"}
  /\ ~response[1].services_detected.meter

\* C8: every built call is started once and POSTed at most once, all calls
\* are started before any settles, a thrown error is a result with status
\* 500 and ok = false, and the response holds exactly one result per call in
\* the order the calls were built, whatever the completion order.
C8_SingleShotOrderedResults ==
  Validated =>
    /\ \A i \in 1..Len(apiCalls) :
         /\ started[i] = 1
         /\ Len(posts[i]) <= 1
         /\ (callPc[i] = "post") => Len(posts[i]) = 1
         /\ apiResults[i] # <<>> <=> callPc[i] = "settled"
         /\ (apiResults[i] # <<>> /\ apiResults[i][1].kind = "error")
              => (apiResults[i][1].status = 500 /\ ~apiResults[i][1].ok)
    /\ Len(started) = Len(apiCalls) /\ Len(apiResults) = Len(apiCalls)
    /\ response # <<>> =>
         /\ Len(response[1].api_calls) = Len(apiCalls)
         /\ \A i \in 1..Len(apiCalls) :
              /\ response[1].api_calls[i].type = apiCalls[i].type
              /\ response[1].api_calls[i].endpoint = apiCalls[i].endpoint
              /\ response[1].api_calls[i] = apiResults[i][1]

\* C8 witness: of two calls the second settled first with a 2xx and the
\* first then failed on a thrown error; both results are in build order
C8_Witness ==
  /\ response # <<>>
  /\ Len(apiCalls) = 2
  /\ settleOrder = <<2, 1>>
  /\ response[1].api_calls[1].kind = "error"
  /\ response[1].api_calls[1].type = "electricity"
  /\ response[1].api_calls[2].status = 200
  /\ response[1].api_calls[2].type = "gas"
  /\ Len(posts[2]) = 1

\* C9: the aggregate ok flag is the AND of the ok flags of all results, and
\* a response with ok = false still carries confidence_score,
\* services_detected, classification_details and every per-call result.
C9_AggregateOkIsConjunction ==
  response # <<>> =>
    /\ response[1].ok <=>
         ({ i \in 1..Len(apiResults) : ~apiResults[i][1].ok } = {})
    /\ {"confidence_score", "services_detected", "classification_details", "api_calls"}
         \subseteq DOMAIN response[1]
    /\ Len(response[1].api_calls) = Len(apiCalls)
    /\ response[1].confidence_score \in 0..100

\* C9 witness: combined bill, electricity answered 2xx, gas answered 503
C9_Witness ==
  /\ response # <<>>
  /\ Len(apiCalls) = 2
  /\ response[1].api_calls[1].type = "electricity" /\ response[1].api_calls[1].status = 200
  /\ response[1].api_calls[2].type = "gas" /\ response[1].api_calls[2].status = 503
  /\ ~response[1].ok
  /\ response[1].services_detected.electricity /\ response[1].services_detected.gas

\* every attempt so far returned a retryable status (5xx or 429)
AllAttemptsRetryable ==
  /\ Len(attemptLog) >= 1
  /\ \A i \in 1..Len(attemptLog) :
       ~attemptLog[i].threw /\ (attemptLog[i].status >= 500 \/ attemptLog[i].status = 429)

\* C10: at most 3 attempts in every run; when every attempt returns a
\* retryable status there are exactly 3 attempts, a 500 ms wait after the
\* first, a 1000 ms wait after the second, none after the third, no 4th
\* attempt, and the result carries the 3rd attempt's status and body.
C10_ThreeAttemptsBackoff ==
  /\ Len(attemptLog) <= 3
  /\ \A i \in 1..Len(attemptLog) : attemptLog[i].attempt = i - 1
  /\ AllAttemptsRetryable =>
       /\ Len(attemptLog) = 1 => sleeps = <<500>>
       /\ Len(attemptLog) >= 2 => sleeps = <<500, 1000>>
       /\ Len(attemptLog) = 3 <=> rpc = "returned"
       /\ rpc = "returned" =>
            /\ ~retryResponse[1].ok
            /\ retryResponse[1].status = attemptLog[3].status
            /\ retryResponse[1].text.id = attemptLog[3].text.id
            /\ retryResponse[1].text.len =
                 (IF attemptLog[3].text.len > 4096 THEN 4096 ELSE attemptLog[3].text.len)

\* C10 witness: three attempts answered 503, 429, 503 and the run returned
C10_Witness ==
  /\ rpc = "returned"
  /\ Len(attemptLog) = 3
  /\ attemptLog[1].status = 503 /\ attemptLog[2].status = 429 /\ attemptLog[3].status = 503
  /\ \A i \in 1..3 : ~attemptLog[i].threw
  /\ sleeps = <<500, 1000>>
  /\ retryResponse[1].status = 503


\* the status an attempt left in lastStatus: a thrown attempt counts as 500
SeenStatus(entry) == IF entry.threw THEN 500 ELSE entry.status
\* neither 5xx nor 429
NonRetryable(status) == ~(status >= 500) /\ status # 429
\* the delay slept after the attempt with the given index (0, 1)
DelayAfter(index) == IF index = 0 THEN 500 ELSE 1000

C11_WitnessFirst404 ==
  /\ Len(attemptLog) = 1
  /\ attemptLog[1].status = 404 /\ ~attemptLog[1].threw
  /\ sleeps = <<>>
  /\ rpc = "returned"
  /\ retryResponse[1].status = 404

\* C12: the number of attempts, the delays and the final ok / status of a run
\* are a function of the statuses seen, where a thrown attempt is seen as
\* 500: lastStatus is the status seen last, a sleep of 500 * 2^index follows
\* exactly the attempts of index 0 and 1 that saw a 5xx or 429, the run has
\* returned exactly after a non-retryable status or the 3rd attempt, and the
\* result is ok iff the status seen last is a 2xx. A thrown attempt and a
\* 500 response are therefore interchangeable in every run.
C12_ThrowHandledLike500 ==
  LET n == Len(attemptLog)
      seen == [i \in 1..n |-> SeenStatus(attemptLog[i])]
      slept == { i \in 1..n : i < 3 /\ ~NonRetryable(seen[i]) }
  IN n >= 1 =>
       /\ lastStatus = seen[n]
       /\ \A i \in 1..n : attemptLog[i].threw => seen[i] = 500
       /\ slept = 1..Len(sleeps)
       /\ \A i \in 1..Len(sleeps) : sleeps[i] = DelayAfter(i - 1)
       /\ rpc = "returned" <=> (n = 3 \/ NonRetryable(seen[n]))
       /\ rpc = "returned" =>
            /\ retryResponse[1].ok <=> (seen[n] \in 200..299)
            /\ retryResponse[1].status = seen[n]

\* C12 witness: a run whose 2nd attempt threw and whose 3rd returned 500
C12_Witness ==
  /\ Len(attemptLog) = 3
  /\ attemptLog[2].threw /\ attemptLog[2].contacted
  /\ ~attemptLog[3].threw /\ attemptLog[3].status = 500
  /\ sleeps = <<500, 1000>>
  /\ rpc = "returned"
  /\ ~retryResponse[1].ok /\ retryResponse[1].status = 500

\* C12 witness: the same run with the outcomes of attempts 2 and 3 exchanged
C12_WitnessSwapped ==
  /\ Len(attemptLog) = 3
  /\ ~attemptLog[2].threw /\ attemptLog[2].status = 500
  /\ attemptLog[3].threw /\ attemptLog[3].contacted
  /\ sleeps = <<500, 1000>>
  /\ rpc = "returned"
  /\ ~retryResponse[1].ok /\ retryResponse[1].status = 500

\* the result of a run that entered the loop is that of its last attempt
ResultOfLastAttempt ==
  (rpc = "returned" /\ Len(attemptLog) >= 1) =>
    LET last == attemptLog[Len(attemptLog)]
        result == retryResponse[1]
    IN /\ result.http = 200
       /\ result.ok <=> (~last.threw /\ last.status \in 200..299)
       /\ result.status = SeenStatus(last)
       /\ result.text.id = last.text.id
       /\ result.text.len = (IF last.text.len > 4096 THEN 4096 ELSE last.text.len)

Scored == fn = "calculateConfidenceScore"

\* C14: calculateConfidenceScore returns an integer in 0..100 for every
\* extraction and every pair of flags, and the date-consistency sub-score
\* added into the total is never negative, however many reading dates lie
\* outside the billing period.
C14_ScoreWithinBounds ==
  Scored =>
    /\ fnResult[1].score \in 0..100
    /\ fnResult[1].dateScore \in 0..25
    /\ fnResult[1].score =
         Min2(fnResult[1].keyFieldScore + fnResult[1].completenessScore
                + fnResult[1].dateScore, 100)

\* C14 witness: 9 or more readings dated after the period (-3 each) and an
\* issue date before the period's end (-2) take dateScore below 0, and 0 is
\* what is added
C14_Witness ==
  /\ Scored
  /\ fnArgs[1].hasElectricityData
  /\ fnArgs[1].bills.electricity # <<>>
  /\ Len(fnArgs[1].bills.electricity[1].meter_readings) >= 9
  /\ fnArgs[1].bills.electricity[1].billing_period = DmyPeriod
  /\ fnArgs[1].bills.electricity[1].issue_date = Dmy(15)
  /\ dateScoreAfterChecks(fnArgs[1].bills, fnArgs[1].hasElectricityData,
                          fnArgs[1].hasGasData) < 0
  /\ fnResult[1].dateScore = 0
  /\ fnResult[1].score = fnResult[1].completenessScore


\* the weights of the key fields present in the scored extraction
PresentKeyFieldWeights ==
  LET b == fnArgs[1].bills
      customer == First(b.cus_details)
      elec == First(b.electricity)
      gas == First(b.gas)
  IN  (IF StrOf(customer, "customer_name") # "" THEN 5 ELSE 0)
    + (IF StrOf(customer, "address") # "" THEN 5 ELSE 0)
    + (IF fnArgs[1].hasElectricityData
         THEN (IF StrOf(elec, "invoice_number") # "" THEN 7 ELSE 0)
            + (IF StrOf(elec, "account_number") # "" THEN 7 ELSE 0)
            + (IF StrOf(elec, "mprn") # "" THEN 8 ELSE 0)
         ELSE 0)
    + (IF fnArgs[1].hasGasData
         THEN (IF StrOf(gas, "invoice_number") # "" THEN 7 ELSE 0)
            + (IF StrOf(gas, "account_number") # "" THEN 7 ELSE 0)
            + (IF StrOf(gas, "gprn") # "" THEN 8 ELSE 0)
         ELSE 0)

\* C15: the key-fields sub-score is the weighted presence of the key fields
\* capped at 40: 5 + 5 for the customer's name and address and 7 + 7 + 8 for
\* invoice_number, account_number and mprn / gprn of each utility classified
\* present, so that it is positive whenever one of these fields is present.
C15_KeyFieldsWeightedPresence ==
  Scored => fnResult[1].keyFieldScore = Min2(PresentKeyFieldWeights, 40)


\* the characters of a phone number that are not whitespace, in order
WithoutWhitespace(p) == SelectSeq(p, LAMBDA c : c \notin {" ", "\t"})

\* C16: the phone field of every form POSTed to a downstream endpoint, the
\* meter endpoint as the electricity and gas endpoints, is the request's
\* phone with all whitespace removed.
C16_EveryCallCarriesStrippedPhone ==
  \A i \in 1..Len(posts) : \A k \in 1..Len(posts[i]) :
    posts[i][k].fields[1].phone = WithoutWhitespace(phone)


\* the normalised MCC / DG codes of the extracted codes of the dispatched bills
ExpectedMccType(mcc) ==
  CASE mcc = <<>> -> <<>>
    [] mcc = <<"0", "1">> -> <<"M", "C", "C", "0", "1">>
    [] mcc = <<"m", "c", "c", "0", "1">> -> <<"M", "C", "C", "0", "1">>
ExpectedDgType(dg) ==
  CASE dg = <<>> -> <<>>
    [] dg = <<"1">> -> <<"D", "G", "1">>
    [] dg = <<"d", "g", "1">> -> <<"D", "G", "1">>
    [] dg = <<"D", "G", "1">> -> <<"D", "G", "1">>

\* scenario A: mprn and exactly the 4 indicators invoice_number,
\* account_number, billing_period and meter_readings, and no gas bill
ScenarioA ==
  /\ Validated
  /\ bills.gas = <<>>
  /\ bills.electricity # <<>>
  /\ bills.electricity[1].mprn # ""
  /\ IndicatorSignals(bills.electricity) =
       {"invoice_number", "account_number", "billing_period", "meter_readings"}

\* C17: in scenario A the result is hasElectricity = true, hasGas = false,
\* meter = false and exactly one call is built, to the electricity endpoint;
\* an electricity call's payload is the phone without whitespace, the mprn,
\* mcc_type = MCC-prefixed upper-case mcc ("" when mcc is absent) and
\* dg_type likewise; a gas call's payload is the phone and the gprn.
C17_ScenarioAElectricityPayload ==
  /\ ScenarioA =>
       /\ classification.hasElectricityData /\ ~classification.hasGasData
       /\ Len(apiCalls) = 1
       /\ apiCalls[1].type = "electricity"
       /\ apiCalls[1].endpoint = "https://api.onebill.ie/api/electricity-file"
       /\ response # <<>> =>
            /\ response[1].services_detected =
                 [electricity |-> TRUE, gas |-> FALSE, meter |-> FALSE]
            /\ Len(response[1].api_calls) = 1
  /\ \A i \in 1..Len(apiCalls) :
       /\ apiCalls[i].type = "electricity" =>
            apiCalls[i].payload =
              << [ phone    |-> WithoutWhitespace(phone),
                   mprn     |-> bills.electricity[1].mprn,
                   mcc_type |-> ExpectedMccType(bills.electricity[1].mcc),
                   dg_type  |-> ExpectedDgType(bills.electricity[1].dg) ] >>
       /\ apiCalls[i].type = "gas" =>
            apiCalls[i].payload =
              << [ phone |-> WithoutWhitespace(phone), gprn |-> bills.gas[1].gprn ] >>
       /\ \A k \in 1..Len(posts[i]) :
            apiCalls[i].type # "meter" => posts[i][k].fields = apiCalls[i].payload

\* C17 witness: scenario A with mcc absent and dg "dg1", answered: one
\* electricity call POSTed with mcc_type "" and dg_type "DG1"
C17_Witness ==
  /\ ScenarioA
  /\ response # <<>>
  /\ bills.electricity[1].mcc = <<>> /\ bills.electricity[1].dg = <<"d", "g", "1">>
  /\ Len(apiCalls) = 1
  /\ Len(posts[1]) = 1
  /\ posts[1][1].fields[1].mcc_type = <<>>
  /\ posts[1][1].fields[1].dg_type = <<"D", "G", "1">>
  /\ posts[1][1].fields[1].phone = <<"0", "8", "7", "1", "2">>
  /\ posts[1][1].fields[1].mprn = "10001234567"

\* C17 witness: scenario A with mcc "01" and dg "1", sent as "MCC01", "DG1"
C17_WitnessUnprefixed ==
  /\ ScenarioA
  /\ bills.electricity[1].mcc = <<"0", "1">>
  /\ Len(posts[1]) = 1
  /\ posts[1][1].fields[1].mcc_type = <<"M", "C", "C", "0", "1">>
  /\ posts[1][1].fields[1].dg_type = <<"D", "G", "1">>


\* C18: prefixMcc, prefixDg and the whitespace stripping of phone numbers
\* give the same result applied twice as applied once, for every string,
\* already-prefixed ones in any letter case included; prefixMcc("") and
\* prefixDg("") are "".
C18_NormalisationIdempotent ==
  fn \in {"prefixMcc", "prefixDg", "normalizePhone"} =>
    /\ fnResult[1].twice = fnResult[1].once
    /\ fnArgs[1] = <<>> => fnResult[1].once = <<>>

\* C18 witness: prefixMcc("mCc1") = "MCC1" = prefixMcc("MCC1")
C18_Witness ==
  /\ fn = "prefixMcc"
  /\ fnArgs[1] = <<"m", "C", "c", "1">>
  /\ fnResult[1].once = <<"M", "C", "C", "1">>
  /\ fnResult[1].twice = <<"M", "C", "C", "1">>

\* C18 witness: prefixDg("1 d") = "DG1 D", unchanged by a second application
C18_WitnessDg ==
  /\ fn = "prefixDg"
  /\ fnArgs[1] = <<"1", " ", "d">>
  /\ fnResult[1].once = <<"D", "G", "1", " ", "D">>
  /\ fnResult[1].twice = fnResult[1].once

\* C18 witness: " 1 1" stripped once and twice is "11"
C18_WitnessPhone ==
  /\ fn = "normalizePhone"
  /\ fnArgs[1] = <<" ", "1", " ", "1">>
  /\ fnResult[1].once = <<"1", "1">>
  /\ fnResult[1].twice = <<"1", "1">>


\* the YYYY-MM-DD substrings of a billing-period text, in order
PeriodDates(b) ==
  SelectSeq(b[1].billing_period, LAMBDA tok : tok.k \in {"iso", "sentinel"})
\* the date of a reading: its date, or else its read_date
DateOfReading(reading) ==
  IF reading.date.k # "none" THEN reading.date ELSE reading.read_date
\* a strictly before b, for two calendar dates
StrictlyBefore(a, b) == a.k = "iso" /\ b.k = "iso" /\ a.t < b.t

\* the readings (by position) of the first bill of a branch that the
\* correlator is to warn about
ReadingsOutsidePeriod(b) ==
  IF b = <<>> THEN {}
  ELSE IF Len(PeriodDates(b)) < 2 THEN {}
  ELSE { i \in 1..Len(b[1].meter_readings) :
           LET d == DateOfReading(b[1].meter_readings[i]) IN
           /\ d.k # "none"
           /\ d.k # "sentinel"
           /\ \/ StrictlyBefore(d, PeriodDates(b)[1])
              \/ StrictlyBefore(PeriodDates(b)[2], d) }

\* the warnings are exactly one per reading outside the period, each naming
\* the reading's position and date and both bounds
WarningsAreFor(b, warnings) ==
  /\ { warnings[k].idx : k \in 1..Len(warnings) } = ReadingsOutsidePeriod(b)
  /\ Len(warnings) = Cardinality(ReadingsOutsidePeriod(b))
  /\ \A k \in 1..Len(warnings) :
       /\ warnings[k].date = DateOfReading(b[1].meter_readings[warnings[k].idx])
       /\ warnings[k].periodStart = PeriodDates(b)[1]
       /\ warnings[k].periodEnd = PeriodDates(b)[2]

C19_WitnessNoWarning ==
  /\ Validated
  /\ bills.electricity # <<>>
  /\ bills.electricity[1].billing_period = IsoPeriod
  /\ bills.electricity[1].meter_readings =
       << [date |-> Iso(10), read_date |-> NoDate], [date |-> NoDate, read_date |-> NoDate] >>
  /\ classification.electricityDateWarnings = <<>>

\* C19 witness: two readings outside the period, the second known by its
\* read_date only, give two warnings in the order of the readings
C19_WitnessTwoWarnings ==
  /\ Validated
  /\ bills.electricity # <<>>
  /\ Len(classification.electricityDateWarnings) = 2
  /\ classification.electricityDateWarnings[1].date = Iso(5)
  /\ classification.electricityDateWarnings[2].date = Iso(25)
  /\ bills.electricity[1].meter_readings[2].date = NoDate


\* a text of at most 4096 characters that is a prefix of another
BoundedPrefixOf(surfaced, whole) ==
  /\ surfaced.len <= 4096
  /\ surfaced.id = whole.id
  /\ surfaced.len <= whole.len
\* the first 4096 characters of a text
First4096Of(surfaced, whole) ==
  /\ surfaced.id = whole.id
  /\ surfaced.len = (IF whole.len > 4096 THEN 4096 ELSE whole.len)

\* the retry coordinator has returned the result of its loop
RetryLoopReturned == rpc = "returned" /\ Len(attemptLog) >= 1

\* C20: every response body or error message in the router's per-call
\* results and in the retry coordinator's result has at most 4096 characters
\* and is a prefix of the text received or of the thrown error's message.
C20_SurfacedTextIsBoundedPrefix ==
  /\ \A i \in 1..Len(apiResults) :
       apiResults[i] # <<>> =>
         /\ received[i][1].text # <<>>
         /\ BoundedPrefixOf(apiResults[i][1].text, received[i][1].text[1])
  /\ RetryLoopReturned =>
       BoundedPrefixOf(retryResponse[1].text, attemptLog[Len(attemptLog)].text)

\* C20 (as the code has it): every surfaced text is the first 4096
\* characters of the text received or of the thrown error's message, except
\* for a router call whose response body could not be read, which carries
\* the fixed text "Failed to read response body"; the router's response
\* holds these texts per call.
C20_SurfacedTextBoundedPrefixOrPlaceholder ==
  /\ \A i \in 1..Len(apiResults) :
       apiResults[i] # <<>> =>
         /\ apiResults[i][1].text.len <= 4096
         /\ IF received[i][1].kind = "unreadable"
              THEN apiResults[i][1].text = FailedToReadBody
              ELSE First4096Of(apiResults[i][1].text, received[i][1].text[1])
         /\ response # <<>> => response[1].api_calls[i].text = apiResults[i][1].text
  /\ RetryLoopReturned =>
       /\ retryResponse[1].text.len <= 4096
       /\ First4096Of(retryResponse[1].text, attemptLog[Len(attemptLog)].text)

\* C20 witness: a router call that received a body of 5000 characters and
\* reports its first 4096, next to a call whose error message of 4500
\* characters is cut to 4096
C20_Witness ==
  /\ response # <<>>
  /\ Len(apiCalls) = 2
  /\ received[1][1] = BodyRead([id |-> "body", len |-> 5000])
  /\ response[1].api_calls[1].text = [id |-> "body", len |-> 4096]
  /\ received[2][1] = Thrown([id |-> "error", len |-> 4500])
  /\ response[1].api_calls[2].text = [id |-> "error", len |-> 4096]

\* C20 witness: the retry coordinator's result cut to 4096 characters
C20_WitnessRetry ==
  /\ RetryLoopReturned
  /\ attemptLog[Len(attemptLog)].text = [id |-> "body", len |-> 5000]
  /\ retryResponse[1].text = [id |-> "body", len |-> 4096]

\* C20 witness: the body of a router call could not be read
C20_WitnessUnreadable ==
  /\ response # <<>>
  /\ received[1][1] = BodyUnreadable
  /\ response[1].api_calls[1].text = FailedToReadBody


\* validation, classification or routing has left a trace in the state
ProcessingDone ==
  \/ pc \in {"dispatching", "responded"}
  \/ apiCalls # <<>>
  \/ \E i \in 1..Len(posts) : posts[i] # <<>>
  \/ bills # [electricity |-> <<>>, gas |-> <<>>]
  \/ classification.hasElectricityData \/ classification.hasGasData
  \/ response # <<>>
\* the answer of the gateway had no structured result
WithoutResult(answer) ==
  answer.threw \/ ~(answer.status \in 200..299) \/ ~answer.toolCall

\* C21: a downstream endpoint is contacted, and validation, classification
\* and routing are done, only after an answer with a tool call was received;
\* an answer without structured result ends the request with an error
\* response (unless it is the 400 that starts the PDF fallback) and nothing
\* is validated, classified or sent for it.
C21_NoRoutingWithoutStructuredResult ==
  /\ ProcessingDone =>
       /\ aiLog # <<>>
       /\ ~WithoutResult(aiLog[Len(aiLog)])
       /\ errorResponse = <<>>
  /\ (aiLog # <<>> /\ WithoutResult(aiLog[Len(aiLog)])) =>
       /\ ~ProcessingDone
       /\ pc = "failed" <=> errorResponse # <<>>
       /\ pc \in {"failed", "converting", "await_ai"}
       /\ pc = "failed" => errorResponse[1].http = 500
       /\ (pc # "failed") => (aiLog[1].status = 400 /\ isPdf /\ Len(aiLog) = 1)

\* C21 witness: a 200 answer without tool call ended the request with the
\* error response and nothing was built
C21_Witness ==
  /\ aiLog = << [status |-> 200, toolCall |-> FALSE, threw |-> FALSE] >>
  /\ pc = "failed"
  /\ errorResponse = << NoStructuredData >>
  /\ apiCalls = <<>> /\ posts = <<>>

\* C21 witness: an endpoint was contacted after an answer with a tool call
C21_WitnessRouted ==
  /\ Len(posts) >= 1 /\ posts[1] # <<>>
  /\ aiLog[Len(aiLog)].toolCall


\* C27: the vision model is called at most twice in a request, and the PDF
\* conversion is run at most once; there is a second call only when the
\* first answer was HTTP 400, the file is a PDF and the conversion returned
\* at least one URL; a conversion without URL ends the request with an error
\* after one call; after the answer to the second call neither a call nor a
\* conversion follows.
C27_AtMostTwoVisionCalls ==
  /\ visionCalls \in 1..2
  /\ Len(convertedUrls) <= 1
  /\ Len(aiLog) <= visionCalls
  /\ visionCalls = 2 <=> (convertedUrls # <<>> /\ convertedUrls[1] >= 1)
  /\ convertedUrls # <<>> =>
       /\ aiLog[1].status = 400 /\ ~aiLog[1].threw
       /\ isPdf
  /\ (convertedUrls # <<>> /\ convertedUrls[1] = 0) =>
       /\ pc = "failed"
       /\ errorResponse = << FailedToProcessPdf >>
       /\ Len(aiLog) = 1
  /\ Len(aiLog) = 2 => pc \in {"failed", "dispatching", "responded"}
  /\ (Len(aiLog) = 1 /\ (aiLog[1].status # 400 \/ ~isPdf)) => pc # "converting"

\* C27 witness: a PDF whose first call and second call both got HTTP 400:
\* one conversion, two calls, and the request failed
C27_Witness ==
  /\ isPdf
  /\ Len(aiLog) = 2
  /\ aiLog[1].status = 400 /\ aiLog[2].status = 400
  /\ convertedUrls = <<3>>
  /\ visionCalls = 2
  /\ pc = "failed"
  /\ errorResponse = << AiParsingFailed(400) >>

\* C27 witness: an image whose call got HTTP 400 failed after one call
C27_WitnessImage ==
  /\ ~isPdf
  /\ aiLog = << [status |-> 400, toolCall |-> FALSE, threw |-> FALSE] >>
  /\ visionCalls = 1 /\ convertedUrls = <<>>
  /\ pc = "failed"


\* the endpoints of the active rows of the table for a service type
ActiveEndpoints(store, type) ==
  { store[i].endpoint_url : i \in { j \in 1..Len(store) :
                                      store[j].is_active /\ store[j].service_type = type } }

\* C22: when the configuration store is consulted, every call built goes to
\* the endpoint of an active entry of the call's service type, for a service
\* whose flag is set, at most one call per service; an endpoint that only
\* inactive entries of that type have is never called.
C22_OnlyActiveConfigsRoute ==
  (fn = "apiConfigs" /\ fnResult[1].consulted) =>
    LET calls == fnResult[1].apiCalls
        store == fnArgs[1].store
    IN /\ \A i \in 1..Len(calls) :
            /\ calls[i].endpoint \in ActiveEndpoints(store, calls[i].type)
            /\ fnArgs[1].services[calls[i].type]
       /\ \A i, j \in 1..Len(calls) : calls[i].type = calls[j].type => i = j
       /\ \A i \in 1..Len(fnResult[1].apiConfigs) : fnResult[1].apiConfigs[i].is_active

\* C22 witness: gas has an inactive entry for endpoint a and an active one
\* for endpoint b, in this order; the gas call goes to b
C22_Witness ==
  /\ fn = "apiConfigs"
  /\ fnArgs[1].store =
       << [service_type |-> "gas", endpoint_url |-> "https://api.onebill.ie/a", is_active |-> FALSE],
          [service_type |-> "gas", endpoint_url |-> "https://api.onebill.ie/b", is_active |-> TRUE] >>
  /\ fnArgs[1].services.gas
  /\ fnResult[1].apiCalls = << [endpoint |-> "https://api.onebill.ie/b", type |-> "gas"] >>


\* the extraction as it was parsed, and as rule 2 alone leaves it
ParsedBills == [electricity |-> electricityData, gas |-> gasData]
Rule2OnlyBills == Clear(ParsedBills, validationLog.rule2)
\* the flags, calls and score the router derives from given bill arrays
RoutingOf(b) ==
  LET hasElectricityData == hasElectricityDataOf(b.electricity)
      hasGasData == hasGasDataOf(b.gas)
  IN [ hasElectricityData |-> hasElectricityData,
       hasGasData |-> hasGasData,
       apiCalls |-> buildApiCalls(phone, b.electricity, b.gas, hasElectricityData, hasGasData),
       confidence_score |-> calculateConfidenceScore(b, hasElectricityData, hasGasData) ]

\* C23: the flags hasElectricity and hasGas, the downstream calls and the
\* confidence score of every extraction are those that rule 2 alone would
\* give: what rule 1 or rule 3 clears is never a branch with an identifier
\* and 3 indicators.
C23_Rules1And3KeepRouting ==
  Validated =>
    /\ classification.hasElectricityData = RoutingOf(Rule2OnlyBills).hasElectricityData
    /\ classification.hasGasData = RoutingOf(Rule2OnlyBills).hasGasData
    /\ apiCalls = RoutingOf(Rule2OnlyBills).apiCalls
    /\ RoutingOf(bills).confidence_score = RoutingOf(Rule2OnlyBills).confidence_score
    /\ validationLog.rule1 = "gas" => ~hasGasDataOf(ParsedBills.gas)
    /\ validationLog.rule1 = "electricity" => ~hasElectricityDataOf(ParsedBills.electricity)
    /\ validationLog.rule3Electricity => ~hasElectricityDataOf(ParsedBills.electricity)
    /\ validationLog.rule3Gas => ~hasGasDataOf(ParsedBills.gas)

\* C23 witness: rule 1 cleared a gas branch that rule 2 leaves alone, and
\* the bill is routed to the electricity endpoint only, as without rule 1
C23_Witness ==
  /\ Validated
  /\ validationLog.rule1 = "gas" /\ validationLog.rule2 = "none"
  /\ bills.gas = <<>> /\ Rule2OnlyBills.gas # <<>>
  /\ classification.hasElectricityData /\ ~classification.hasGasData
  /\ Len(apiCalls) = 1 /\ apiCalls[1].type = "electricity"

\* C23 witness: rule 3 cleared an electricity branch holding one identifier
C23_WitnessRule3 ==
  /\ Validated
  /\ validationLog.rule3Electricity /\ validationLog.rule1 = "none"
  /\ bills.electricity = <<>> /\ Rule2OnlyBills.electricity # <<>>


\* C24: every electricity call carries a non-empty mprn or a non-empty
\* dg_type, with an empty mprn only for a bill identified by its dg; every
\* gas call carries a non-empty gprn; a meter call has no payload, whatever
\* identifiers the extraction holds.
C24_CallsCarryTheirIdentifier ==
  /\ \A i \in 1..Len(apiCalls) :
       /\ apiCalls[i].type = "electricity" =>
            /\ apiCalls[i].payload # NoPayload
            /\ apiCalls[i].payload[1].mprn # "" \/ apiCalls[i].payload[1].dg_type # <<>>
            /\ apiCalls[i].payload[1].mprn = "" =>
                 /\ SeqOf(First(bills.electricity), "dg") # <<>>
                 /\ apiCalls[i].payload[1].dg_type = prefixDg(SeqOf(First(bills.electricity), "dg"))
       /\ apiCalls[i].type = "gas" =>
            /\ apiCalls[i].payload # NoPayload
            /\ apiCalls[i].payload[1].gprn # ""
       /\ apiCalls[i].type = "meter" => apiCalls[i].payload = NoPayload

\* C24 witness: an electricity call with an empty mprn, classified through
\* its dg, next to a gas call with its gprn
C24_Witness ==
  /\ Len(apiCalls) = 2
  /\ apiCalls[1].type = "electricity" /\ apiCalls[1].payload[1].mprn = ""
  /\ apiCalls[1].payload[1].dg_type = <<"D", "G", "1">>
  /\ apiCalls[2].type = "gas" /\ apiCalls[2].payload[1].gprn = "1234567"

\* C24 witness: the meter call of a bill holding an mprn and a gprn
C24_WitnessMeter ==
  /\ Len(apiCalls) = 1 /\ apiCalls[1].type = "meter"
  /\ apiCalls[1].payload = NoPayload
  /\ StrOf(First(bills.electricity), "mprn") # ""
  /\ StrOf(First(bills.gas), "gprn") # ""


\* the router's side of the file failure: a call whose file fetch threw never
\* posted to its endpoint and settled with status 500, ok false
RouterFileFailure ==
  \A i \in 1..Len(apiCalls) :
    /\ callPc[i] = "settled" /\ posts[i] = <<>> =>
         /\ apiResults[i][1].status = 500 /\ ~apiResults[i][1].ok
         /\ received[i][1].kind = "thrown"
    /\ callPc[i] = "file" => posts[i] = <<>>
\* the phone check of a meter retry stops the attempt before any fetch
MeterRetryWithoutPhone ==
  retryBody # <<>> /\ retryBody[1].type = "meter" /\ retryBody[1].phone = <<>>

\* C25 as stated: in the router a call whose file fetch throws never
\* contacts its endpoint and gets status 500, ok false; in the retry
\* coordinator every attempt without a fetched file (fetch failed, or no
\* file reference) still contacts the endpoint, with no file field.
C25_FileFailureHandling ==
  /\ RouterFileFailure
  /\ \A k \in 1..Len(attemptLog) :
       attemptLog[k].fetch # "ok" => attemptLog[k].contacted /\ ~attemptLog[k].file

\* C25 amended: as C25, for every retry attempt except those of a meter
\* retry without phone, which stop at the phone check and contact nothing.
C25_FileFailureHandlingPastPhoneCheck ==
  /\ RouterFileFailure
  /\ \A k \in 1..Len(attemptLog) :
       /\ attemptLog[k].fetch # "ok" => ~attemptLog[k].file
       /\ attemptLog[k].fetch # "ok" /\ ~MeterRetryWithoutPhone => attemptLog[k].contacted
       /\ MeterRetryWithoutPhone => ~attemptLog[k].contacted

\* C25 witness: a router call whose file fetch threw, never posted
C25_Witness ==
  /\ Len(apiCalls) = 2
  /\ callPc[1] = "settled" /\ posts[1] = <<>> /\ apiResults[1][1].status = 500
  /\ posts[2] # <<>>

\* C25 witness: three retry attempts whose file fetch failed, each of them
\* posted to the endpoint without a file field
C25_WitnessRetry ==
  /\ rpc = "returned" /\ Len(attemptLog) = 3
  /\ \A k \in 1..3 : /\ attemptLog[k].fetch = "failed"
                     /\ attemptLog[k].contacted /\ ~attemptLog[k].file

\* C25 witness: a retry without a file reference posted to the endpoint
C25_WitnessNoReference ==
  /\ attemptLog # <<>> /\ ~retryBody[1].fileRef
  /\ attemptLog[1].fetch = "none" /\ attemptLog[1].contacted /\ ~attemptLog[1].file


\* C26: a meter retry without phone never contacts the endpoint; it runs 3
\* attempts that each raise the missing-phone error, sleeps 500 ms and
\* 1000 ms between them, and returns ok false with status 500. A request
\* without endpoint or type, and no other, is answered with HTTP 400 before
\* any attempt or sleep.
C26_MissingPhoneRunsAllAttempts ==
  /\ MeterRetryWithoutPhone /\ retryBody[1].endpoint # "" =>
       /\ \A k \in 1..Len(attemptLog) :
            /\ ~attemptLog[k].contacted /\ attemptLog[k].threw
            /\ attemptLog[k].text = PhoneRequired
       /\ rpc = "sleeping" => sleeps = [k \in 1..Len(attemptLog) |-> 500 * k]
       /\ rpc = "returned" =>
            /\ Len(attemptLog) = 3 /\ sleeps = << 500, 1000 >>
            /\ retryResponse[1].http = 200 /\ ~retryResponse[1].ok
            /\ retryResponse[1].status = 500
  /\ rpc = "returned" =>
       /\ (retryBody[1].endpoint = "" \/ retryBody[1].type = "") =>
            /\ retryResponse[1].http = 400
            /\ attemptLog = <<>> /\ sleeps = <<>>
       /\ (retryBody[1].endpoint # "" /\ retryBody[1].type # "") =>
            retryResponse[1].http # 400 /\ attemptLog # <<>>

\* C26 witness: the meter retry without phone returned after three attempts
C26_Witness ==
  /\ rpc = "returned" /\ MeterRetryWithoutPhone /\ retryBody[1].endpoint # ""
  /\ Len(attemptLog) = 3 /\ sleeps = << 500, 1000 >>
  /\ \A k \in 1..3 : ~attemptLog[k].contacted
  /\ retryResponse[1].status = 500 /\ ~retryResponse[1].ok

\* C26 witness: a meter retry without phone and without endpoint, rejected
C26_WitnessRejected ==
  /\ rpc = "returned" /\ MeterRetryWithoutPhone /\ retryBody[1].endpoint = ""
  /\ retryResponse[1].http = 400 /\ attemptLog = <<>> /\ sleeps = <<>>


\* the scored extraction with its electricity and gas bills left out
CustomerBlockOnly(b) == [b EXCEPT !.electricity = <<>>, !.gas = <<>>]
\* a utility's date penalty above 5 comes with a billing period, which the
\* completeness sub-score counts
PenaltyComesWithPeriod(service, flagged) ==
  flagged /\ checkDateConsistency(service) > 5 =>
    /\ SeqOf(service, "billing_period") # <<>>
    /\ fnResult[1].completenessScore >= 5

\* C28: with neither utility classified the completeness sub-score is 0 and
\* the date sub-score 25, so the score is at least 25 and is the score of
\* the customer block alone; and for every input the score is above 0, a
\* date penalty above 5 of a utility coming with completeness points.
C28_MeterDefaultScoreAndNeverZero ==
  Scored =>
    LET a == fnArgs[1] IN
    /\ ~a.hasElectricityData /\ ~a.hasGasData =>
         /\ fnResult[1].completenessScore = 0
         /\ fnResult[1].dateScore = 25
         /\ fnResult[1].score >= 25
         /\ fnResult[1].score = 25 + fnResult[1].keyFieldScore
         /\ fnResult[1].score =
              calculateConfidenceScore(CustomerBlockOnly(a.bills), FALSE, FALSE)
    /\ fnResult[1].score > 0
    /\ PenaltyComesWithPeriod(First(a.bills.electricity), a.hasElectricityData)
    /\ PenaltyComesWithPeriod(First(a.bills.gas), a.hasGasData)

\* C28 witness: the meter-default score of an extraction that holds an
\* electricity bill with a billing period and readings
C28_Witness ==
  /\ Scored
  /\ ~fnArgs[1].hasElectricityData /\ ~fnArgs[1].hasGasData
  /\ fnArgs[1].bills.electricity # <<>>
  /\ fnArgs[1].bills.electricity[1].billing_period # <<>>
  /\ fnArgs[1].bills.electricity[1].meter_readings # <<>>
  /\ fnResult[1].completenessScore = 0 /\ fnResult[1].dateScore = 25

\* C28 witness: both utilities classified, the date sub-score used up by
\* the penalties, and the score still above 0
C28_WitnessPenalties ==
  /\ Scored
  /\ fnArgs[1].hasElectricityData /\ fnArgs[1].hasGasData
  /\ fnResult[1].dateScore = 0
  /\ fnResult[1].score > 0


\* is the call one of those handed to the retry panel?
Listed(call) == \E i \in 1..Len(failedApiCalls) : failedApiCalls[i] = call

\* C29: every failed call of the last answered submit is listed in the
\* retry panel unless a retry of that same call succeeded, so a successful
\* retry takes only its own call off the list; and a call with a retry in
\* flight has its retrying flag set and one invocation in flight at most.
C29_FailedCallStaysListedUntilItsRetrySucceeds ==
  /\ \A call \in latestFailed : call \notin retriedOk => Listed(call)
  /\ \A call \in retriedOk : ~Listed(call)
  /\ \A r \in retriesInFlight : r.key \in retrying
  /\ \A r1 \in retriesInFlight, r2 \in retriesInFlight : r1.key = r2.key => r1 = r2


\* no run is in flight and no reset timer is pending: progressStep can only
\* change with a new uploadFile run
ParserQuiescent ==
  parserPc = "idle" /\ ~uploading /\ ~parserLoading /\ resetTimers = <<>>

\* C30: once a run of uploadFile is over and no reset timer is pending,
\* progressStep is back at "idle" (it is not left at "uploading",
\* "analyzing", "sending" or any other step for good), and no reset timer
\* sets progressStep to "idle" while an upload or a parse is in flight.
C30_ProgressReturnsToIdle ==
  /\ ParserQuiescent => progressStep = "idle"
  /\ ~resetWhileBusy

\* C30, the run with a blank phone alone: the step is left at "uploading"
C30_NotLeftAtUploading ==
  ParserQuiescent => progressStep \notin {"uploading", "analyzing", "sending"}

\* C30, the reset timers alone
C30_NoResetWhileBusy == ~resetWhileBusy

====
